---- MODULE Spec2Model ----
(***************************************************************************)
(* A model of the preconfirmation pipeline of eth-fabric/fabric:           *)
(*   - the proposer's delegation manager (crates/inclusion/src/proposer),  *)
(*   - the relay's constraints service   (crates/inclusion/src/relay),     *)
(*   - the gateway's commitment RPC and constraint scheduler               *)
(*                                       (crates/inclusion/src/gateway).   *)
(* Each service is a separate process with its own RocksDB store; the      *)
(* services share only the wall clock (the slot number derived from the    *)
(* chain's genesis time).  Signatures are abstracted to the key that made   *)
(* them: verify_bls(key, root(msg), sig) succeeds iff sig was produced by   *)
(* `key` over exactly `msg`.  Hashes are abstracted to the hashed value     *)
(* (keccak256 is taken to be collision free).                               *)
(***************************************************************************)
EXTENDS Integers, Sequences, FiniteSets, TLC

\* ------------------------------------------------------------------ bounds
\* Slots are 0..MaxSlot; the clock stops at MaxSlot.
MaxSlot == 1
\* The longest list of duties one beacon response carries.
MaxDuties == 2
\* The longest list of proofs, and of stored constraints, the proof
\* functions are called with.
MaxProofs == 2
\* The most operations in one batch written to a store.
MaxOps == 2
\* The most signing requests the proposer makes for one slot (caps the
\* retry-after-store-failure loop, which is unbounded in the code).
MaxSignReq == 2

\* --------------------------------------------------------------- constants
\* The absent value of an optional record (Option::None).
None == [none |-> TRUE]
\* No crash with a delegation in hand has happened for the slot.
NoCrash == "never"
Slots == 0 .. MaxSlot

\* Number of epochs one polling pass of the proposer covers.
EpochsPerPass == 2

\* BLS keys of validators; the proposer's signer holds OurKeys.
ProposerKeys == {"P1", "P2"}
OurKeys == {"P1"}
\* A duty whose pubkey field does not parse.
BadKey == "bad"

\* The gateway's BLS key and ECDSA committer address, as configured at the
\* proposer (ProposerState.gateway_public_key / gateway_address).
GatewayPublicKey == "G1"
GatewayAddress == "A1"
EmptyBytes == "empty"

VARIABLES
    now,        \* current_slot(chain): the slot the wall clock is in
    \* ---- library functions
    call,       \* the library function called last, its arguments and result
    kv,         \* a DatabaseContext: raw key -> raw value
    rd,         \* a multi_get_raw in progress: the values read so far
    bg,         \* the background loops: where each is, how its last iteration ended
    \* ---- proposer process
    pDb,        \* the proposer's store, kind 'A': slot -> SignedDelegation
    pPc,        \* where the polling pass is
    pEpochs,    \* epochs still to process in this pass
    pLeft,      \* duties still to process in the current epoch's response
    pCur,       \* the signed delegation in hand (volatile)
    pSignReq,   \* history: signing requests made, per slot
    pWrites,    \* history: store_delegation writes, per slot
    pPosts,     \* history: POST /delegation requests emitted, per slot
    pSkipped,   \* history: a duty for the slot was skipped as already delegated
    pCrashAt,   \* history: the phase of the last crash with a delegation in hand
    pPostErr,   \* history: a POST /delegation for the slot ended in failure
    \* ---- relay process
    rDeleg,     \* the relay's store of signed delegations: slot -> SignedDelegation
    rLookahead, \* the relay's proposer lookahead: slot -> proposer key
    rH,         \* the relay's request handlers (one per request in progress)
    rCons,      \* the relay's store of signed constraints: slot -> SignedConstraints
    rQ,         \* the relay's handlers of constraints and block requests
    rDown,      \* the request the downstream relay was sent last
    \* ---- gateway process
    gDeleg,     \* the gateway's store of delegations: slot -> SignedDelegation
    gStore,     \* the gateway's commitment rows: (slot, request_hash) -> pair
    gFlag,      \* the gateway's finalization flags: slot -> BOOLEAN
    gH,         \* the gateway's commitmentRequest handlers
    sPc,        \* where the constraint scheduler is
    sTarget,    \* the scheduler's target slot and its delegation (volatile)
    sMsg,       \* the constraints message the scheduler has in hand (volatile)
    sOut,       \* what the scheduler's latest step sent out or logged (signature request, POST)
    gAcked,     \* history: the relay acknowledged a POST /constraints for the slot
    gLate,      \* history: the requests that came in after the scan or the flag
    gPoll       \* the delegation poller: where its pass is, what it did last

proposerVars == <<pDb, pPc, pEpochs, pLeft, pCur, pSignReq, pWrites, pPosts,
                  pSkipped, pCrashAt, pPostErr>>

relayVars == <<rDeleg, rLookahead, rH, rCons, rQ, rDown>>

\* The part of the relay's state that POST /delegation and the lookahead
\* updater leave alone.
relayApiVars == <<rCons, rQ, rDown>>

gatewayVars == <<gDeleg, gStore, gFlag, gH, sPc, sTarget, sMsg, sOut, gAcked, gLate,
                 gPoll>>

\* Calls of the library functions (proofs, signing roots).
libVars == <<call, kv, rd, bg>>

vars == <<now, proposerVars, relayVars, gatewayVars, libVars>>

\* What the steps of one service leave alone: the other services' state.
notProposerVars == <<relayVars, gatewayVars, libVars>>
notRelayVars == <<proposerVars, gatewayVars, libVars>>
notGatewayVars == <<proposerVars, relayVars, libVars>>

\* ------------------------------------------------------------------ clock

\* lookahead::utils::current_slot advances with the wall clock.
Tick ==
    /\ now < MaxSlot
    /\ now' = now + 1
    /\ UNCHANGED <<proposerVars, relayVars, gatewayVars, libVars>>

\* ------------------------------------------------------- proposer service

\* DelegationsDbExt::get_delegation / is_delegated / store_delegation on a
\* store represented as a function slot -> value-or-None.
GetDelegation(db, slot) == db[slot]

IsDelegated(db, slot) == GetDelegation(db, slot) # None

StoreDelegation(db, sd) == [db EXCEPT ![sd.message.slot] = sd]

\* create_signed_delegation: the message the proposer signs, signed with the
\* validator's own consensus key.
CreateSignedDelegation(proposerKey, slot) ==
    [message |-> [proposer  |-> proposerKey,
                  delegate  |-> GatewayPublicKey,
                  committer |-> GatewayAddress,
                  slot      |-> slot,
                  metadata  |-> EmptyBytes],
     signer  |-> proposerKey]

\* Mutant: the equivocation guard never skips.
ShouldSkipDuty_Never(existing) == FALSE

\* `if existing_delegation.is_some() { ...; continue; }`
ShouldSkipDuty(existing) == existing # None

\* Mutant: a duty of the current slot is taken too.
IsOurFutureDuty_NotPast(key, slot, cur) == key \in OurKeys /\ slot >= cur

\* `our_pubkeys.contains(&duty_pubkey) && duty_slot > current_slot(..)`
IsOurFutureDuty(key, slot, cur) == key \in OurKeys /\ slot > cur

\* Mutant: the POST is reached without the store in between.
AfterSignPc_SkipStore == "stored"

\* After create_signed_delegation returns, the next statement is
\* store_delegation ("Store before sending to prevent equivocation").
AfterSignPc == "signed"

\* `?` on an error: process_lookahead returns Err, main's loop logs it and
\* waits for the next tick.
PAbortPass ==
    /\ pPc' = "idle"
    /\ pEpochs' = 0
    /\ pLeft' = 0
    /\ pCur' = None

\* process_lookahead up to the epoch loop: get_consensus_keys fails, returns
\* no key (warn and return Ok) or returns the signer's keys.
ProcessLookaheadStart ==
    /\ pPc = "idle"
    /\ \E outcome \in {"fail", "empty", "keys"} :
         IF outcome = "keys"
         THEN /\ pPc' = "fetch"
              /\ pEpochs' = EpochsPerPass
              /\ UNCHANGED <<pLeft, pCur>>
         ELSE PAbortPass
    /\ UNCHANGED <<notProposerVars, now, pDb, pSignReq, pWrites, pPosts, pSkipped, pCrashAt, pPostErr>>

\* process_epoch_duties: get_proposer_duties(epoch).  The duties of the
\* response are revealed one at a time by ProcessDuty; only their number is
\* fixed here.
FetchDuties ==
    /\ pPc = "fetch"
    /\ \E ok \in BOOLEAN, n \in 0 .. MaxDuties :
         IF ok
         THEN /\ pPc' = "duties"
              /\ pLeft' = n
              /\ UNCHANGED <<pEpochs, pCur>>
         ELSE PAbortPass
    /\ UNCHANGED <<notProposerVars, now, pDb, pSignReq, pWrites, pPosts, pSkipped, pCrashAt, pPostErr>>

\* One iteration of `for duty in duties.data` up to and including the call
\* of the signer.
ProcessDuty ==
    /\ pPc = "duties"
    /\ pLeft > 0
    /\ \E key \in ProposerKeys \cup {BadKey}, slot \in Slots,
          getOk \in BOOLEAN, signOk \in BOOLEAN :
         IF key = BadKey
         THEN \* duty.parse_pubkey()? fails
              /\ PAbortPass
              /\ UNCHANGED <<pSignReq, pSkipped>>
         ELSE IF ~IsOurFutureDuty(key, slot, now)
         THEN /\ pLeft' = pLeft - 1
              /\ UNCHANGED <<pPc, pEpochs, pCur, pSignReq, pSkipped>>
         ELSE IF ~getOk
         THEN \* get_delegation(duty_slot)? fails
              /\ PAbortPass
              /\ UNCHANGED <<pSignReq, pSkipped>>
         ELSE IF ShouldSkipDuty(GetDelegation(pDb, slot))
         THEN /\ pLeft' = pLeft - 1
              /\ pSkipped' = [pSkipped EXCEPT ![slot] = TRUE]
              /\ UNCHANGED <<pPc, pEpochs, pCur, pSignReq>>
         ELSE \* create_signed_delegation: the signer is called
              /\ pSignReq[slot] < MaxSignReq
              /\ pSignReq' = [pSignReq EXCEPT ![slot] = @ + 1]
              /\ UNCHANGED pSkipped
              /\ IF signOk
                 THEN /\ pCur' = CreateSignedDelegation(key, slot)
                      /\ pPc' = AfterSignPc
                      /\ UNCHANGED <<pEpochs, pLeft>>
                 ELSE PAbortPass
    /\ UNCHANGED <<notProposerVars, now, pDb, pWrites, pPosts, pCrashAt, pPostErr>>

\* self.state.db.store_delegation(&signed_delegation)?
PStoreDelegation ==
    /\ pPc = "signed"
    /\ \E ok \in BOOLEAN :
         IF ok
         THEN /\ pDb' = StoreDelegation(pDb, pCur)
              /\ pWrites' = [pWrites EXCEPT ![pCur.message.slot] = @ + 1]
              /\ pPc' = "stored"
              /\ UNCHANGED <<pEpochs, pLeft, pCur>>
         ELSE /\ PAbortPass
              /\ UNCHANGED <<pDb, pWrites>>
    /\ UNCHANGED <<notProposerVars, now, pSignReq, pPosts, pSkipped, pCrashAt, pPostErr>>

\* Mutant: a failed POST takes the record out of the store again.
AfterPostFailure_Rollback(db, sd) == [db EXCEPT ![sd.message.slot] = None]

\* `post_delegation(..).await?` after store_delegation: the error is
\* returned and nothing is done to the store.
AfterPostFailure(db, sd) == db

\* constraints_client.post_delegation(&signed_delegation).await?  The request
\* is emitted; the relay (or the network) answers with success or failure.
PPostDelegation ==
    /\ pPc = "stored"
    /\ pPosts' = [pPosts EXCEPT ![pCur.message.slot] = @ + 1]
    /\ \E ok \in BOOLEAN :
         IF ok
         THEN /\ pPc' = "duties"
              /\ pLeft' = pLeft - 1
              /\ pCur' = None
              /\ UNCHANGED <<pEpochs, pDb, pPostErr>>
         ELSE /\ PAbortPass
              /\ pDb' = AfterPostFailure(pDb, pCur)
              /\ pPostErr' = [pPostErr EXCEPT ![pCur.message.slot] = TRUE]
    /\ UNCHANGED <<notProposerVars, now, pSignReq, pWrites, pSkipped, pCrashAt>>

\* The end of `for duty in duties.data`, and of the epoch loop.
EpochDone ==
    /\ pPc = "duties"
    /\ pLeft = 0
    /\ pEpochs' = pEpochs - 1
    /\ pPc' = IF pEpochs - 1 > 0 THEN "fetch" ELSE "idle"
    /\ UNCHANGED <<notProposerVars, now, pDb, pLeft, pCur, pSignReq, pWrites, pPosts, pSkipped,
                   pCrashAt, pPostErr>>

\* The process dies and is started again: the store survives, the pass and
\* the delegation in hand do not.
PCrash ==
    /\ pPc # "idle"
    /\ pCrashAt' = IF pPc \in {"signed", "stored"}
                   THEN [pCrashAt EXCEPT ![pCur.message.slot] = pPc]
                   ELSE pCrashAt
    /\ PAbortPass
    /\ UNCHANGED <<notProposerVars, now, pDb, pSignReq, pWrites, pPosts, pSkipped,
                   pPostErr>>

\* ----------------------------------------------------------- relay service

\* The relay serves requests on a multi-threaded runtime: every request is
\* handled by its own task, and tasks run in parallel.
RelayHandlers == {1, 2}

DelegateKeys == {"G1", "G2"}
ZeroAddress == "0x0"
\* The lookahead has no entry for the slot.
NoKey == "nokey"

\* The proposer the beacon chain schedules for a slot.
BeaconProposer(slot) == IF slot % 2 = 1 THEN "P1" ELSE "P2"

\* The bodies a POST /delegation can carry.
DelegationRequests ==
    [message : [proposer  : ProposerKeys,
                delegate  : DelegateKeys,
                committer : {ZeroAddress, GatewayAddress},
                slot      : Slots,
                metadata  : {EmptyBytes}],
     signer  : ProposerKeys]

IdleHandler == [pc |-> "idle", req |-> None, slot |-> 0, had |-> FALSE,
                status |-> "none"]

\* The handler has its response: Ok(()) or Err(..).
Responded(slot, had, status) ==
    [pc |-> "done", req |-> None, slot |-> slot, had |-> had, status |-> status]

\* validate_delegation_message
ValidateDelegationMessage(msg, cur) ==
    /\ msg.committer # ZeroAddress
    /\ ~(msg.slot <= cur)

\* verify_delegation_signature: verify_bls under message.proposer
VerifyDelegationSignature(sd) == sd.signer = sd.message.proposer

\* LookaheadDbExt::get_proposer_bls_key
GetProposerBlsKey(lookahead, slot) == lookahead[slot]

\* Mutant: a slot without a lookahead entry is let through.
ValidateIsProposer_MissingEntryOk(pubkey, slot, lookahead) ==
    \/ GetProposerBlsKey(lookahead, slot) = NoKey
    \/ pubkey = GetProposerBlsKey(lookahead, slot)

\* validate_is_proposer
ValidateIsProposer(pubkey, slot, lookahead) ==
    /\ GetProposerBlsKey(lookahead, slot) # NoKey
    /\ pubkey = GetProposerBlsKey(lookahead, slot)

\* Mutant: the existence check is dropped.
RejectsEquivocation_Never(db, slot) == FALSE

\* `if self.state.db.is_delegated(slot)? { return Err(..) }`
RejectsEquivocation(db, slot) == IsDelegated(db, slot)

\* post_delegation up to (not including) the existence check:
\* validate_delegation_message, verify_delegation_signature,
\* validate_is_proposer.  `had` records whether the slot had a stored
\* delegation when the request arrived.
RelayPostDelegationOf(h, requests) ==
    /\ rH[h].pc = "idle"
    /\ \E sd \in requests, readOk \in BOOLEAN :
         LET slot == sd.message.slot
             had  == rDeleg[slot] # None
         IN  rH' = [rH EXCEPT ![h] =
               IF ~ValidateDelegationMessage(sd.message, now)
               THEN Responded(slot, had, "err_message")
               ELSE IF ~VerifyDelegationSignature(sd)
               THEN Responded(slot, had, "err_signature")
               ELSE IF ~readOk
               THEN Responded(slot, had, "err_store")
               ELSE IF ~ValidateIsProposer(sd.message.proposer, slot, rLookahead)
               THEN Responded(slot, had, "err_proposer")
               ELSE [pc |-> "check", req |-> sd, slot |-> slot, had |-> had,
                     status |-> "none"]]
    /\ UNCHANGED <<notRelayVars, relayApiVars, now, rDeleg, rLookahead>>

\* A POST /delegation with any body.
RelayPostDelegation(h) == RelayPostDelegationOf(h, DelegationRequests)

\* The delegations the proposers make to this gateway.
GatewayDelegations ==
    {sd \in DelegationRequests :
        /\ sd.signer = sd.message.proposer
        /\ sd.message.proposer = BeaconProposer(sd.message.slot)
        /\ sd.message.delegate = GatewayPublicKey
        /\ sd.message.committer = GatewayAddress}

\* A POST /delegation from a proposer that delegates to this gateway.
RelayPostGatewayDelegation(h) == RelayPostDelegationOf(h, GatewayDelegations)

\* post_delegation: the existence check.
RelayCheckExisting(h) ==
    /\ rH[h].pc = "check"
    /\ \E readOk \in BOOLEAN :
         rH' = [rH EXCEPT ![h] =
               IF ~readOk
               THEN Responded(@.slot, @.had, "err_store")
               ELSE IF RejectsEquivocation(rDeleg, @.slot)
               THEN Responded(@.slot, @.had, "err_equivocation")
               ELSE [@ EXCEPT !.pc = "store"]]
    /\ UNCHANGED <<notRelayVars, relayApiVars, now, rDeleg, rLookahead>>

\* post_delegation: store_delegation and the response.
RelayStoreDelegation(h) ==
    /\ rH[h].pc = "store"
    /\ \E ok \in BOOLEAN :
         IF ok
         THEN /\ rDeleg' = StoreDelegation(rDeleg, rH[h].req)
              /\ rH' = [rH EXCEPT ![h] = Responded(@.slot, @.had, "ok")]
         ELSE /\ rDeleg' = rDeleg
              /\ rH' = [rH EXCEPT ![h] = Responded(@.slot, @.had, "err_store")]
    /\ UNCHANGED <<notRelayVars, relayApiVars, now, rLookahead>>

\* The response leaves the relay; the task ends.
RelayRespond(h) ==
    /\ rH[h].pc = "done"
    /\ rH' = [rH EXCEPT ![h] = IdleHandler]
    /\ UNCHANGED <<notRelayVars, relayApiVars, now, rDeleg, rLookahead>>

\* LookaheadManager::process_lookahead: the duties of the beacon node are
\* stored slot by slot; an error (beacon, parse, store) ends the pass with
\* the first n entries written.
LookaheadUpdate ==
    /\ \E n \in 0 .. MaxSlot + 1 :
         rLookahead' = [s \in Slots |->
                          IF s < n THEN BeaconProposer(s) ELSE rLookahead[s]]
    /\ UNCHANGED <<notRelayVars, relayApiVars, now, rDeleg, rH>>

\* --------------------------------------------------------- gateway service

\* commitmentRequest calls are served in parallel, one task per call.
GatewayHandlers == {1, 2}

INCLUSION_COMMITMENT_TYPE == 1
INCLUSION_CONSTRAINT_TYPE == 1
CommitmentTypes == {1, 2}

\* The signed transactions users ask to have included.
Txs == {1, 2}
Slasher == "S1"
\* A payload that does not decode as an InclusionPayload.
BadPayload == [bad |-> TRUE]
\* The signature field of an object the signer never signed.
NoSignature == "nosig"
\* GatewayState.constraints_receivers
ConstraintsReceivers == {"R1"}

CommitmentRequests ==
    [commitment_type : CommitmentTypes,
     payload         : {BadPayload} \cup [slot : Slots, signed_tx : Txs],
     slasher         : {Slasher}]

\* keccak256(abi_encode(request)): one hash per distinct request.
RequestHash(req) == <<"keccak256", req.commitment_type, req.payload, req.slasher>>

\* validate_commitment_request: the type, the payload's decoding, the slot.
ValidateCommitmentRequest(req, cur) ==
    /\ req.commitment_type = INCLUSION_COMMITMENT_TYPE
    /\ req.payload # BadPayload
    /\ req.payload.slot > cur

\* The nonces a response of the signer can carry; FirstNonce is the one of
\* a signer that always answers alike.
FirstNonce == 0
SignerNonces == {FirstNonce, 1}

\* create_signed_commitment: the commitment, the ECDSA signature made with
\* the key of `address` and the nonce of the signer's response.
CreateSignedCommitment(req, address, nonce) ==
    [commitment |-> [commitment_type |-> req.commitment_type,
                     payload         |-> req.payload,
                     request_hash    |-> RequestHash(req),
                     slasher         |-> req.slasher],
     nonce      |-> nonce,
     signer     |-> address]

\* create_constraint_from_commitment_request
CreateConstraintFromCommitmentRequest(req) ==
    [constraint_type |-> INCLUSION_CONSTRAINT_TYPE, payload |-> req.payload]

\* commitment_key(slot, request_hash): [ 'C' ][ slot_be ][ request_hash ]
CommitmentKey(slot, hash) == [slot |-> slot, request_hash |-> hash]

\* Mutant: a put replaces every row of the key's slot.
PutRow_ReplaceSlot(store, key, value) ==
    {r \in store : r.key.slot # key.slot} \cup {[key |-> key, value |-> value]}

\* put_json / get_json on the rows of kind 'C': a put replaces the row of
\* the same key.
PutRow(store, key, value) ==
    {r \in store : r.key # key} \cup {[key |-> key, value |-> value]}

GetRow(store, key) ==
    IF \E r \in store : r.key = key
    THEN (CHOOSE r \in store : r.key = key).value
    ELSE None

\* Mutant: commitment and constraint are written one after the other, and a
\* failure leaves the first behind.
StoreSignedCommitmentAndConstraint_TwoWrites(store, slot, hash, sc, c, ok) ==
    PutRow(store, CommitmentKey(slot, hash),
           [commitment |-> sc, constraint |-> IF ok THEN c ELSE None])

\* store_signed_commitment_and_constraint: one put of the pair under one
\* key; `ok` is whether the put succeeds.
StoreSignedCommitmentAndConstraint(store, slot, hash, sc, c, ok) ==
    IF ok
    THEN PutRow(store, CommitmentKey(slot, hash),
                [commitment |-> sc, constraint |-> c])
    ELSE store

\* get_signed_commitment_and_constraint
GetSignedCommitmentAndConstraint(store, slot, hash) ==
    GetRow(store, CommitmentKey(slot, hash))

\* What a reader finds for (slot, request_hash).
ReadableCommitment(store, slot, hash) ==
    LET v == GetSignedCommitmentAndConstraint(store, slot, hash)
    IN  v # None /\ v.commitment # None

ReadableConstraint(store, slot, hash) ==
    LET v == GetSignedCommitmentAndConstraint(store, slot, hash)
    IN  v # None /\ v.constraint # None

\* The constraints of the rows of one slot in key order (the request hashes
\* of one slot differ in the transaction only).
RECURSIVE ConstraintsFrom(_, _, _)
ConstraintsFrom(store, slot, tx) ==
    IF tx \notin Txs
    THEN <<>>
    ELSE LET here == {r \in store : r.key.slot = slot
                                    /\ r.key.request_hash[3] # BadPayload
                                    /\ r.key.request_hash[3].signed_tx = tx}
         IN  (IF here = {} THEN <<>>
              ELSE <<(CHOOSE r \in here : TRUE).value.constraint>>)
             \o ConstraintsFrom(store, slot, tx + 1)

\* Mutant: the scan takes the rows of every slot.
GetConstraintsInRange_AnySlot(store, slot) ==
    IF slot - 1 \in Slots
    THEN ConstraintsFrom(store, slot - 1, 1) \o ConstraintsFrom(store, slot, 1)
    ELSE ConstraintsFrom(store, slot, 1)

\* get_constraints_in_range(slot, slot)
GetConstraintsInRange(store, slot) == ConstraintsFrom(store, slot, 1)

\* post_constraints: the ConstraintsMessage built from the scan, the
\* delegation handed in and GatewayState.constraints_receivers.
BuildConstraintsMessage(store, slot, delegation) ==
    [proposer    |-> delegation.message.proposer,
     delegate    |-> delegation.message.delegate,
     slot        |-> slot,
     constraints |-> GetConstraintsInRange(store, slot),
     receivers   |-> ConstraintsReceivers]

\* signed_constraints_finalized / finalize_signed_constraints
SignedConstraintsFinalized(flags, slot) == flags[slot]

FinalizeSignedConstraints(flags, slot) == [flags EXCEPT ![slot] = TRUE]

IdleGw == [pc |-> "idle", req |-> None, committer |-> NoSignature,
           signed |-> None, status |-> "none"]

\* The call has its result: Ok(signed_commitment) or Err(ErrorObject).
GwResponded(req, signed, status) ==
    [pc |-> "done", req |-> req, committer |-> NoSignature, signed |-> signed,
     status |-> status]

\* Mutant: every failure is reported as an internal error.
ErrorCode_Internal(status) == -32603

\* The JSON-RPC error code of each failure.
ErrorCode(status) ==
    IF status \in {"err_validation", "err_delegation_read", "err_no_delegation"}
    THEN -32602
    ELSE -32603

\* Mutant: a failure of the signer does not end the call.
AbortsOnSignFailure_Never(signOk) == FALSE

\* `.await.map_err(..)?` on create_signed_commitment
AbortsOnSignFailure(signOk) == ~signOk

\* Mutant: the result of the store is ignored.
StatusAfterStore_IgnoreFailure(storeOk) == "ok"

\* `.map_err(..)?` on store_signed_commitment_and_constraint, then
\* Ok(signed_commitment)
StatusAfterStore(storeOk) == IF storeOk THEN "ok" ELSE "err_store"

\* Mutant: the commitment is signed with the gateway's configured address
\* whatever the delegation names.
SigningAddress_Configured(delegation) == GatewayAddress

\* `signed_delegation.message.committer`, the address create_signed_commitment
\* is asked to sign with.
SigningAddress(delegation) == delegation.message.committer

\* commitment_request up to the signer: validate_commitment_request and
\* get_delegation(slot).
GwReceive(h, req, readOk) ==
    /\ gH[h].pc = "idle"
    /\ gH' = [gH EXCEPT ![h] =
               IF ~ValidateCommitmentRequest(req, now)
               THEN GwResponded(req, None, "err_validation")
               ELSE IF ~readOk
               THEN GwResponded(req, None, "err_delegation_read")
               ELSE IF GetDelegation(gDeleg, req.payload.slot) = None
               THEN GwResponded(req, None, "err_no_delegation")
               ELSE [pc |-> "sign", req |-> req,
                     committer |->
                         SigningAddress(GetDelegation(gDeleg, req.payload.slot)),
                     signed |-> None, status |-> "none"]]
    /\ UNCHANGED <<notGatewayVars, now, gDeleg, gStore, gFlag, sPc, sTarget, sMsg,
                   sOut, gAcked, gPoll>>

\* A commitmentRequest call with parameters from `requests`.
GwCommitmentRequestOf(h, requests) ==
    /\ \E req \in requests, readOk \in BOOLEAN : GwReceive(h, req, readOk)
    /\ UNCHANGED gLate

\* The well-formed inclusion requests: any transaction, any slot.
InclusionRequests ==
    {req \in CommitmentRequests :
        /\ req.commitment_type = INCLUSION_COMMITMENT_TYPE
        /\ req.payload # BadPayload}

\* When a request for a slot comes in, as the scheduler stands: "flag" once
\* the finalization flag of the slot is set, "scan" while a release of the
\* slot has scanned the store and is not over, else "early".
ArrivalTime(slot) ==
    IF SignedConstraintsFinalized(gFlag, slot) THEN "flag"
    ELSE IF sPc \in {"post", "finalize"} /\ sMsg.message.slot = slot THEN "scan"
    ELSE "early"

\* A commitmentRequest call for an inclusion.  For a request whose key the
\* store does not hold, the time it came in is noted if that is after the
\* scan or the flag of its slot, in place of what was noted of the request
\* before.
GwNotedCommitmentRequest(h) ==
    \E req \in InclusionRequests, readOk \in BOOLEAN :
        /\ GwReceive(h, req, readOk)
        /\ gLate' = IF GetSignedCommitmentAndConstraint(
                          gStore, req.payload.slot, RequestHash(req)) # None
                    THEN gLate
                    ELSE {l \in gLate : l.req # req} \cup
                         (IF ArrivalTime(req.payload.slot) = "early" THEN {}
                          ELSE {[req   |-> req,
                                 after |-> ArrivalTime(req.payload.slot)]})

\* A commitmentRequest call with any parameters.
GwCommitmentRequest(h) == GwCommitmentRequestOf(h, CommitmentRequests)

\* The requests of one user: inclusion of its transaction in some slot.
UserRequests ==
    {req \in CommitmentRequests :
        /\ req.commitment_type = INCLUSION_COMMITMENT_TYPE
        /\ req.payload # BadPayload
        /\ req.payload.signed_tx = 1}

\* A commitmentRequest call of that user.
GwUserCommitmentRequest(h) == GwCommitmentRequestOf(h, UserRequests)

\* commitment_request: create_signed_commitment (the signer is called) and
\* create_constraint_from_commitment_request.
\* `nonces` are the nonces the signer's response can carry.
GwSignWith(h, nonces) ==
    /\ gH[h].pc = "sign"
    /\ \E signOk \in BOOLEAN, constraintOk \in BOOLEAN, nonce \in nonces :
         LET req == gH[h].req
         IN  gH' = [gH EXCEPT ![h] =
                   IF AbortsOnSignFailure(signOk)
                   THEN GwResponded(req, None, "err_signer")
                   ELSE IF ~constraintOk
                   THEN GwResponded(req, None, "err_constraint")
                   ELSE [pc |-> "store", req |-> req,
                         committer |-> gH[h].committer,
                         signed |-> CreateSignedCommitment(req,
                                        IF signOk THEN gH[h].committer
                                        ELSE NoSignature,
                                        nonce),
                         status |-> "none"]]
    /\ UNCHANGED <<notGatewayVars, now, gDeleg, gStore, gFlag, sPc, sTarget, sMsg,
                   sOut, gAcked, gLate, gPoll>>

\* The signer answers every request alike.
GwSign(h) == GwSignWith(h, {FirstNonce})

\* The signer answers with any nonce.
GwSignAnyNonce(h) == GwSignWith(h, SignerNonces)

\* commitment_request: store_signed_commitment_and_constraint and the result.
GwStore(h) ==
    /\ gH[h].pc = "store"
    /\ \E ok \in BOOLEAN :
         LET req    == gH[h].req
             status == StatusAfterStore(ok)
         IN  /\ gStore' = StoreSignedCommitmentAndConstraint(
                              gStore, req.payload.slot, RequestHash(req),
                              gH[h].signed,
                              CreateConstraintFromCommitmentRequest(req), ok)
             /\ gH' = [gH EXCEPT ![h] =
                         GwResponded(req,
                                     IF status = "ok" THEN @.signed ELSE None,
                                     status)]
    /\ UNCHANGED <<notGatewayVars, now, gDeleg, gFlag, sPc, sTarget, sMsg, sOut,
                   gAcked, gLate, gPoll>>

\* The result leaves the gateway; the task ends.
GwRespond(h) ==
    /\ gH[h].pc = "done"
    /\ gH' = [gH EXCEPT ![h] = IdleGw]
    /\ UNCHANGED <<notGatewayVars, now, gDeleg, gStore, gFlag, sPc, sTarget, sMsg,
                   sOut, gAcked, gLate, gPoll>>

\* A committer address other than the one this gateway's operator
\* configured at the proposer.
OtherAddress == "A2"
CommitterAddresses == {GatewayAddress, OtherAddress}

\* The delegations the relay can hold for a slot: well formed, signed by the
\* proposer the beacon chain schedules.
RelayDelegations(slot) ==
    {sd \in [message : [proposer  : {BeaconProposer(slot)},
                        delegate  : DelegateKeys,
                        committer : CommitterAddresses,
                        slot      : {slot},
                        metadata  : {EmptyBytes}],
             signer  : ProposerKeys] :
        /\ ValidateDelegationMessage(sd.message, slot - 1)
        /\ VerifyDelegationSignature(sd)}

\* Mutant: a delegation to any delegate is stored.
IsForThisGateway_Any(sd) == TRUE

\* `delegation.message.delegate != self.config.delegate_public_key` => Err
IsForThisGateway(sd) == sd.message.delegate = GatewayPublicKey

\* DelegationManager::update_delegations, one slot of the window: a slot
\* already delegated is skipped; otherwise get_delegations_from_relay
\* fetches, checks the delegate and stores.
\* `committers` are the committer addresses of the delegations the relay
\* holds.
GwFetchDelegationFrom(committers) ==
    /\ \E slot \in Slots, fetched \in BOOLEAN, storeOk \in BOOLEAN :
         /\ slot >= now
         /\ ~IsDelegated(gDeleg, slot)
         /\ \E sd \in RelayDelegations(slot) :
              /\ sd.message.committer \in committers
              /\ gDeleg' = IF fetched /\ IsForThisGateway(sd) /\ storeOk
                           THEN StoreDelegation(gDeleg, sd)
                           ELSE gDeleg
    /\ UNCHANGED <<notGatewayVars, now, gStore, gFlag, gH, sPc, sTarget, sMsg, sOut,
                   gAcked, gLate, gPoll>>

\* The relay holds delegations naming the gateway's usual committer.
GwFetchDelegation == GwFetchDelegationFrom({GatewayAddress})

\* The relay holds delegations naming any committer.
GwFetchAnyDelegation == GwFetchDelegationFrom(CommitterAddresses)

\* The poller between two passes, nothing done yet.
IdlePoll == [pc |-> "idle", known |-> {}, next |-> 0,
             last |-> [slot |-> 0, outcome |-> "nothing"]]

\* DelegationManager::update_delegations up to its loop: the slots of the
\* window that hold a delegation are read in one range scan; an error of
\* the scan ends the pass.  The window is the slots from the current one on.
PollerStart ==
    /\ gPoll.pc = "idle"
    /\ \E readOk \in BOOLEAN :
         gPoll' = IF readOk
                  THEN [pc    |-> "window",
                        known |-> {slot \in Slots :
                                     slot >= now /\ IsDelegated(gDeleg, slot)},
                        next  |-> now,
                        last  |-> IdlePoll.last]
                  ELSE [IdlePoll EXCEPT !.last =
                           [slot |-> now, outcome |-> "range_err"]]
    /\ UNCHANGED <<notGatewayVars, now, gDeleg, gStore, gFlag, gH, sPc, sTarget, sMsg,
                   sOut, gAcked, gLate>>

\* What get_delegations_from_relay does for a slot: the fetch fails, the
\* relay has nothing (found = None), the first delegation of its answer
\* names another delegate, the write fails, or the delegation is stored.
FetchOutcome(fetched, found, storeOk) ==
    IF ~fetched THEN "fetch_err"
    ELSE IF found = None THEN "absent"
    ELSE IF ~IsForThisGateway(found) THEN "mismatch"
    ELSE IF ~storeOk THEN "store_err"
    ELSE "stored"

\* One iteration of `for slot in current_slot..=lookahead_end`: a slot the
\* range scan found delegated is skipped; otherwise
\* get_delegations_from_relay runs and its error, if any, is logged.
PollerSlot ==
    /\ gPoll.pc = "window"
    /\ LET slot == gPoll.next
       IN  \E fetched \in BOOLEAN, storeOk \in BOOLEAN,
              found \in {None} \cup RelayDelegations(slot) :
             LET outcome == IF slot \in gPoll.known THEN "skipped"
                            ELSE FetchOutcome(fetched, found, storeOk)
             IN  /\ gDeleg' = IF outcome = "stored"
                              THEN StoreDelegation(gDeleg, found)
                              ELSE gDeleg
                 /\ gPoll' = [pc    |-> IF slot + 1 \in Slots THEN "window" ELSE "idle",
                              known |-> gPoll.known,
                              next  |-> slot + 1,
                              last  |-> [slot |-> slot, outcome |-> outcome]]
    /\ UNCHANGED <<notGatewayVars, now, gStore, gFlag, gH, sPc, sTarget, sMsg, sOut,
                   gAcked, gLate>>

NoOut == [kind |-> "none", slot |-> 0, ok |-> FALSE]

\* Mutant: the finalization flag is not consulted.
ReleaseDecision_IgnoreFlag(delegation, finalized) ==
    delegation # None /\ finalized # "err"

\* Mutant: the release goes on when the flag cannot be read.
ReleaseDecision_DespiteError(delegation, finalized) ==
    delegation # None /\ finalized # "true"

\* check_and_process_constraints: release only for Ok(Some(delegation)) and
\* Ok(false); `finalized` is the result of signed_constraints_finalized.
ReleaseDecision(delegation, finalized) ==
    delegation # None /\ finalized = "false"

\* Mutant: the result of the POST is not looked at.
ProceedsAfterPost_Always(postOk) == TRUE

\* `constraints_client.post_constraints(..).await?`
ProceedsAfterPost(postOk) == postOk

SchedIdle ==
    /\ sPc' = "idle"
    /\ sTarget' = None
    /\ sMsg' = None

\* SystemTime::now() in seconds since the epoch, when the scheduler looks at
\* the clock.
NowSecs == 1000

\* 2^64 is beyond the integers of the checker; a number above every time in
\* seconds of the model stands for it.
TwoTo64 == 1000000

\* `time_until_next_slot(chain) - CONSTRAINT_TRIGGER_OFFSET` in seconds, a
\* signed number: the trigger time is past, is now, or is still to come.
\* OnTime is the difference of an iteration that runs at the trigger time.
OnTime == 0
TriggerDiffs == {-2, OnTime, 5}

\* `(..) as u64` on a signed integer: a negative number wraps around.
AsU64(x) == IF x >= 0 THEN x ELSE TwoTo64 + x

\* `now >= trigger_time`, with now in seconds since the epoch and
\* trigger_time the difference as u64: the branch that releases at once.
\* The other branch sleeps trigger_time - now seconds first.
ReleasesAtOnce(diff) == NowSecs >= AsU64(diff)

\* The same comparison `now >= trigger_time` for any reading of the clock.
ReleasesAtOnceAt(nowSecs, diff) == nowSecs >= AsU64(diff)

\* One iteration of ConstraintManager::run up to the call of
\* post_constraints, for the differences `diffs` the clock can give.  A read
\* of the store that fails is logged ("Failed to check ..") and ends the
\* iteration; the flag is read only once a delegation has been found.  The
\* branch that sleeps is taken only when the difference has wrapped
\* around, and then sleeps longer than any clock of the model runs: the
\* scheduler stays asleep until the process is started again.
SchedCheckWith(diffs) ==
    /\ sPc = "idle"
    /\ \E delegOk \in BOOLEAN, finOk \in BOOLEAN, diff \in diffs :
         LET target == now + 1
             deleg  == IF delegOk /\ target \in Slots
                       THEN GetDelegation(gDeleg, target) ELSE None
             fin    == IF ~finOk THEN "err"
                       ELSE IF target \in Slots
                               /\ SignedConstraintsFinalized(gFlag, target)
                       THEN "true" ELSE "false"
             log    == IF ~delegOk \/ (deleg # None /\ fin = "err")
                       THEN [kind |-> "read_err", slot |-> target, ok |-> FALSE]
                       ELSE IF deleg # None /\ fin = "true"
                       THEN [kind |-> "skip", slot |-> target, ok |-> TRUE]
                       ELSE NoOut
         IN  IF ReleaseDecision(deleg, fin)
             THEN /\ sPc' = IF ReleasesAtOnce(diff) THEN "release" ELSE "sleep"
                  /\ sTarget' = deleg
                  /\ sMsg' = None
                  /\ sOut' = log
             ELSE /\ SchedIdle
                  /\ sOut' = log
    /\ UNCHANGED <<notGatewayVars, now, gDeleg, gStore, gFlag, gH, gAcked, gLate, gPoll>>

\* An iteration that runs at the trigger time.
SchedCheck == SchedCheckWith({OnTime})

\* An iteration that runs at any time of the slot before its target.
SchedCheckAnyTime == SchedCheckWith(TriggerDiffs)

\* Mutant: an empty scan does not end post_constraints.
NothingToCommit_Never(constraints) == FALSE

\* post_constraints: `if constraints.is_empty() { .. return Ok(()) }`
NothingToCommit(constraints) == constraints = <<>>

\* post_constraints: the range scan, the message and the call of the signer
\* (sign_constraints_message with the delegate key).  A scan that fails
\* ends the iteration through `?`; a scan that finds nothing logs "No
\* constraints found" and returns.
SchedScan ==
    /\ sPc = "release"
    /\ \E scanOk \in BOOLEAN, signOk \in BOOLEAN :
         LET slot        == sTarget.message.slot
             constraints == GetConstraintsInRange(gStore, slot)
         IN  IF ~scanOk \/ NothingToCommit(constraints)
             THEN /\ SchedIdle
                  /\ sOut' = IF scanOk
                             THEN [kind |-> "empty", slot |-> slot, ok |-> TRUE]
                             ELSE NoOut
             ELSE /\ sOut' = [kind |-> "sign", slot |-> slot, ok |-> signOk]
                  /\ IF signOk
                     THEN /\ sPc' = "post"
                          /\ sMsg' = [message |->
                                        BuildConstraintsMessage(gStore, slot, sTarget),
                                      signer |-> sTarget.message.delegate]
                          /\ UNCHANGED sTarget
                     ELSE SchedIdle
    /\ UNCHANGED <<notGatewayVars, now, gDeleg, gStore, gFlag, gH, gAcked, gLate, gPoll>>

\* post_constraints: the result of the POST is in; `?` ends the iteration
\* on a failure.
SchedPostResult(ok) ==
    LET slot == sMsg.message.slot
    IN  /\ sOut' = [kind |-> "post", slot |-> slot, ok |-> ok]
        /\ gAcked' = [gAcked EXCEPT ![slot] = @ \/ ok]
        /\ IF ProceedsAfterPost(ok)
           THEN /\ sPc' = "finalize"
                /\ UNCHANGED <<sTarget, sMsg>>
           ELSE SchedIdle

\* post_constraints: POST /constraints; the relay (or the network) answers
\* with success or failure.
SchedPost ==
    /\ sPc = "post"
    /\ \E ok \in BOOLEAN : SchedPostResult(ok)
    /\ UNCHANGED <<notGatewayVars, now, gDeleg, gStore, gFlag, gH, gLate, gPoll>>

\* post_constraints: finalize_signed_constraints(slot)?
SchedFinalize ==
    /\ sPc = "finalize"
    /\ \E ok \in BOOLEAN :
         gFlag' = IF ok THEN FinalizeSignedConstraints(gFlag, sTarget.message.slot)
                  ELSE gFlag
    /\ SchedIdle
    /\ sOut' = NoOut
    /\ UNCHANGED <<notGatewayVars, now, gDeleg, gStore, gH, gAcked, gLate, gPoll>>

\* The gateway process dies and is started again: the store survives, the
\* calls in progress and the scheduler's iteration do not.
GwCrash ==
    /\ \/ sPc # "idle"
       \/ \E h \in GatewayHandlers : gH[h].pc # "idle"
       \/ gPoll.pc # "idle"
    /\ gH' = [h \in GatewayHandlers |-> IdleGw]
    /\ SchedIdle
    /\ sOut' = NoOut
    /\ gPoll' = IdlePoll
    /\ UNCHANGED <<notGatewayVars, now, gDeleg, gStore, gFlag, gAcked, gLate>>

\* ------------------------------------ relay service: constraints endpoints

ConstraintOf(slot, tx) ==
    [constraint_type |-> INCLUSION_CONSTRAINT_TYPE,
     payload         |-> [slot |-> slot, signed_tx |-> tx]]

\* The constraint lists a POST /constraints for a slot can carry.
ConstraintLists(slot) ==
    {<<ConstraintOf(slot, 1)>>, <<ConstraintOf(slot, 1), ConstraintOf(slot, 2)>>}

\* ConstraintsMessage.receivers: no receiver, or the configured ones.
ReceiverLists == {{}, ConstraintsReceivers}

\* The bodies a POST /constraints can carry.
ConstraintsRequests ==
    UNION {[message : [proposer    : {BeaconProposer(slot)},
                       delegate    : DelegateKeys,
                       slot        : {slot},
                       constraints : ConstraintLists(slot),
                       receivers   : ReceiverLists],
            signer  : DelegateKeys] : slot \in Slots}

IdleQ == [pc |-> "idle", kind |-> "none", req |-> None, passed |-> FALSE,
          prev |-> None, status |-> "none", body |-> None]

\* The handler has its result.  `passed` is whether a GET found the slot it
\* asks for passed (current_slot > slot), `prev` what the handler read from
\* the store of signed constraints, `body` what an Ok result carries.
QResponded(kind, req, passed, prev, status, body) ==
    [pc |-> "done", kind |-> kind, req |-> req, passed |-> passed, prev |-> prev,
     status |-> status, body |-> body]

\* validate_constraints_message
ValidateConstraintsMessage(msg, cur) == ~(msg.slot <= cur)

\* verify_constraints_signature: verify_bls under message.delegate
VerifyConstraintsSignature(sc) == sc.signer = sc.message.delegate

\* Mutant: any stored delegation for the slot will do.
ValidateIsGateway_AnyDelegate(gateway, slot, db) == GetDelegation(db, slot) # None

\* validate_is_gateway
ValidateIsGateway(gateway, slot, db) ==
    /\ GetDelegation(db, slot) # None
    /\ GetDelegation(db, slot).message.delegate = gateway

\* Mutant: the constraints of a slot are written once.
PutSignedConstraints_WriteOnce(db, sc) ==
    IF db[sc.message.slot] # None THEN db ELSE [db EXCEPT ![sc.message.slot] = sc]

\* ConstraintsDbExt::put_signed_constraints: put_json under constraint_key(slot)
PutSignedConstraints(db, sc) == [db EXCEPT ![sc.message.slot] = sc]

\* store_signed_constraints, the relay's write of accepted constraints: any
\* constraints stored for the slot are overwritten.
StoreSignedConstraints(db, sc) == PutSignedConstraints(db, sc)

\* ConstraintsDbExt::get_signed_constraints
GetSignedConstraints(db, slot) == db[slot]

\* The checks of post_constraints in their order; "ok" when all pass.
\* `readOk` is whether the read of the delegation succeeds.
PostConstraintsChecks(sc, cur, db, readOk) ==
    IF ~ValidateConstraintsMessage(sc.message, cur) THEN "err_elapsed"
    ELSE IF ~VerifyConstraintsSignature(sc) THEN "err_signature"
    ELSE IF ~readOk THEN "err_store"
    ELSE IF ~ValidateIsGateway(sc.message.delegate, sc.message.slot, db)
    THEN "err_gateway"
    ELSE "ok"

\* The handler once the checks are made: on to the write, or the error.
AfterConstraintsChecks(sc, checks) ==
    IF checks = "ok"
    THEN [pc |-> "store", kind |-> "post_constraints", req |-> sc,
          passed |-> FALSE, prev |-> None, status |-> "none", body |-> None]
    ELSE QResponded("post_constraints", sc, FALSE, None, checks, None)

\* post_constraints up to the write: validate_constraints_message,
\* verify_constraints_signature, validate_is_gateway.
RelayPostConstraintsOf(h, requests) ==
    /\ rQ[h].pc = "idle"
    /\ \E sc \in requests, readOk \in BOOLEAN :
         rQ' = [rQ EXCEPT ![h] =
                  AfterConstraintsChecks(sc, PostConstraintsChecks(sc, now, rDeleg,
                                                                  readOk))]
    /\ UNCHANGED <<notRelayVars, now, rDeleg, rLookahead, rH, rCons, rDown>>

\* A POST /constraints with any body.
RelayPostConstraints(h) == RelayPostConstraintsOf(h, ConstraintsRequests)

\* The signed constraints this gateway posts: one constraint, signed with
\* its own key, for no receiver or for the configured ones.
GatewayConstraints ==
    {sc \in ConstraintsRequests :
        /\ sc.signer = GatewayPublicKey
        /\ sc.message.delegate = GatewayPublicKey
        /\ Len(sc.message.constraints) = 1}

\* A POST /constraints from this gateway.
RelayPostGatewayConstraints(h) == RelayPostConstraintsOf(h, GatewayConstraints)

\* The signed constraints this gateway posts for the configured receivers,
\* of one constraint or of two.
ReceiverConstraints ==
    {sc \in ConstraintsRequests :
        /\ sc.signer = GatewayPublicKey
        /\ sc.message.delegate = GatewayPublicKey
        /\ sc.message.receivers = ConstraintsReceivers}

\* A POST /constraints from this gateway for the configured receivers.
RelayPostReceiverConstraints(h) == RelayPostConstraintsOf(h, ReceiverConstraints)

\* Mutant: constraints already stored for the slot make the write an error.
RelayStoreConstraints_RefuseExisting(h) ==
    /\ rQ[h].pc = "store"
    /\ LET sc == rQ[h].req
       IN  IF GetSignedConstraints(rCons, sc.message.slot) = None
           THEN /\ rCons' = StoreSignedConstraints(rCons, sc)
                /\ rQ' = [rQ EXCEPT ![h] =
                            QResponded("post_constraints", sc, FALSE, None, "ok",
                                       None)]
           ELSE /\ rCons' = rCons
                /\ rQ' = [rQ EXCEPT ![h] =
                            QResponded("post_constraints", sc, FALSE, None,
                                       "err_exists", None)]
    /\ UNCHANGED <<notRelayVars, now, rDeleg, rLookahead, rH, rDown>>

\* post_constraints: store_signed_constraints and the result.
RelayStoreConstraints(h) ==
    /\ rQ[h].pc = "store"
    /\ \E ok \in BOOLEAN :
         LET sc == rQ[h].req
         IN  IF ok
             THEN /\ rCons' = StoreSignedConstraints(rCons, sc)
                  /\ rQ' = [rQ EXCEPT ![h] =
                              QResponded("post_constraints", sc, FALSE,
                                         GetSignedConstraints(rCons, sc.message.slot),
                                         "ok", None)]
             ELSE /\ rCons' = rCons
                  /\ rQ' = [rQ EXCEPT ![h] =
                              QResponded("post_constraints", sc, FALSE, None,
                                         "err_store", None)]
    /\ UNCHANGED <<notRelayVars, now, rDeleg, rLookahead, rH, rDown>>

\* The BLS keys of the callers of GET /constraints.
CallerKeys == {"R1", "R2"}

\* keccak256(slot.to_be_bytes())
SlotHash(slot) == <<"keccak256", slot>>

\* A request with none of the X-Receiver-* headers, and one with a header
\* that does not parse.
NoHeaders == [headers |-> "none"]
MalformedHeaders == [headers |-> "malformed"]

\* The X-Receiver-* headers a GET /constraints can carry: a public key, and
\* a signature made by the holder of some key over the hash of some slot.
ReceiverHeaders ==
    {NoHeaders, MalformedHeaders} \cup
    [public_key : CallerKeys,
     signature  : [signer : CallerKeys, msg : {SlotHash(slot) : slot \in Slots}]]

\* AuthorizationContext::from_headers: an absent header is None (NoKey for
\* the key), a header that does not parse is an error.
FromHeaders(hdrs) ==
    IF hdrs = MalformedHeaders THEN [err |-> TRUE]
    ELSE IF hdrs = NoHeaders THEN [public_key |-> NoKey, signature |-> None]
    ELSE [public_key |-> hdrs.public_key, signature |-> hdrs.signature]

\* verify_bls: the signature is by the holder of the key and over the
\* message; nothing verifies without a key or a signature.
VerifyBls(public_key, msg, signature) ==
    /\ public_key # NoKey
    /\ signature # None
    /\ signature.signer = public_key
    /\ signature.msg = msg

\* Mutant: any verified caller is served.
IsReceiver_Anyone(sc, public_key) == TRUE

\* signed_constraints.message.receivers.contains(&auth.public_key)
IsReceiver(sc, public_key) == public_key \in sc.message.receivers

\* RelayServer::get_constraints: the result and, when Ok, the list returned.
\* `readOk` is whether the read of the store succeeds.
GetConstraints(slot, auth, cur, db, readOk) ==
    LET stored == GetSignedConstraints(db, slot)
    IN  IF cur > slot
        THEN IF ~readOk THEN [status |-> "err_store", body |-> None]
             ELSE [status |-> "ok",
                   body   |-> IF stored = None THEN <<>> ELSE <<stored>>]
        ELSE IF ~VerifyBls(auth.public_key, SlotHash(slot), auth.signature)
        THEN [status |-> "err_signature", body |-> None]
        ELSE IF ~readOk THEN [status |-> "err_store", body |-> None]
        ELSE IF stored = None THEN [status |-> "err_not_found", body |-> None]
        ELSE IF ~IsReceiver(stored, auth.public_key)
        THEN [status |-> "err_receiver", body |-> None]
        ELSE [status |-> "ok", body |-> <<stored>>]

\* The HTTP status of a finished request: 400 when the headers do not
\* parse, 500 for every error of the API, 200 otherwise.
HttpStatus(q) ==
    IF q.status = "ok" THEN 200
    ELSE IF q.status = "err_headers" THEN 400
    ELSE 500

\* GET /constraints/{slot}: the HTTP handler and RelayServer::get_constraints.
RelayGetConstraints(h) ==
    /\ rQ[h].pc = "idle"
    /\ \E slot \in Slots, hdrs \in ReceiverHeaders, readOk \in BOOLEAN :
         LET req  == [slot |-> slot, headers |-> hdrs]
             auth == FromHeaders(hdrs)
             prev == GetSignedConstraints(rCons, slot)
         IN  rQ' = [rQ EXCEPT ![h] =
                      IF auth = [err |-> TRUE]
                      THEN QResponded("get_constraints", req, now > slot, prev,
                                      "err_headers", None)
                      ELSE LET res == GetConstraints(slot, auth, now, rCons, readOk)
                           IN  QResponded("get_constraints", req, now > slot, prev,
                                          res.status, res.body)]
    /\ UNCHANGED <<notRelayVars, now, rDeleg, rLookahead, rH, rCons, rDown>>

\* ------------------------------------------ relay service: blocks endpoint

MAX_CONSTRAINTS_PER_SLOT == 256

\* The transaction lists of the blocks builders submit.
BlockTxs == {<<1>>, <<2>>, <<1, 2>>}

\* tx.hash(): a hash stands for the transaction hashed.
TxHash(tx) == tx

\* Not a transaction: the trie has no value for the key, or the proof does
\* not verify.
NoTx == 0

\* TransactionTrieBuilder::root of the trie built from txs, whose key i
\* (the RLP of the index) holds the RLP of the i-th transaction: the root
\* commits to the whole list.
Root(txs) == <<"root", txs>>

\* TransactionTrieBuilder::find_tx_index: the first position of the hash
\* (indices from 1; 0 stands for the error).
FindTxIndex(txs, tx_hash) ==
    IF \E i \in 1 .. Len(txs) : TxHash(txs[i]) = tx_hash
    THEN CHOOSE i \in 1 .. Len(txs) :
            /\ TxHash(txs[i]) = tx_hash
            /\ \A j \in 1 .. i - 1 : TxHash(txs[j]) # tx_hash
    ELSE 0

\* Mutant: the path is made for the key before the one asked for.
GetProof_KeyBefore(txs, tx_index) ==
    [root |-> Root(txs), key |-> tx_index - 1, value |-> txs[tx_index]]

\* TransactionTrieBuilder::get_proof: the Merkle path of key tx_index in
\* the trie of txs.  A path verifies against the root and the key it was
\* made for, and yields the value stored there.
GetProof(txs, tx_index) ==
    [root |-> Root(txs), key |-> tx_index, value |-> txs[tx_index]]

\* Mutant: the path is not held against the root.
VerifyProof_AnyRoot(root, tx_index, proof) ==
    IF proof.key = tx_index THEN proof.value ELSE NoTx

\* TransactionTrieBuilder::verify_proof: the transaction the path proves
\* at the key under the root.
VerifyProof(root, tx_index, proof) ==
    IF proof.root = root /\ proof.key = tx_index THEN proof.value ELSE NoTx

\* The Merkle paths of the transactions of the blocks.
MerklePaths ==
    UNION {{GetProof(txs, i) : i \in 1 .. Len(txs)} : txs \in BlockTxs}

\* InclusionProof::to_bytes (bincode of the three fields).
ToBytes(proof) == <<"bincode", proof.tx_hash, proof.tx_index, proof.proof>>

\* Bytes that are no serialized InclusionProof.
BadBytes == <<"bincode">>
DecodeError == [err |-> TRUE]

\* InclusionProof::from_bytes
FromBytes(bytes) ==
    IF Len(bytes) = 4
    THEN [tx_hash |-> bytes[2], tx_index |-> bytes[3], proof |-> bytes[4]]
    ELSE DecodeError

\* InclusionProof::new: the index of the hash in the block and its path
\* (called for a hash the block holds).
NewInclusionProof(txs, tx_hash) ==
    [tx_hash  |-> tx_hash,
     tx_index |-> FindTxIndex(txs, tx_hash),
     proof    |-> GetProof(txs, FindTxIndex(txs, tx_hash))]

\* The inclusion proofs a request can carry: a transaction hash, an index,
\* and a Merkle path made for that index in some block.
InclusionProofs ==
    {p \in [tx_hash : Txs, tx_index : 1 .. 2, proof : MerklePaths] :
        p.proof.key = p.tx_index}

\* The block the proofs are held against.
ProvedBlock == [slot |-> 1, txs |-> <<1, 2>>]

\* The proof payloads of a request for that block: the proofs of its two
\* transactions, a proof naming another hash than the one at its index, a
\* proof made for another block, and bytes that do not decode.
AnyProofPayloads ==
    {ToBytes(NewInclusionProof(ProvedBlock.txs, 1)),
     ToBytes(NewInclusionProof(ProvedBlock.txs, 2)),
     ToBytes([tx_hash |-> 2, tx_index |-> 1, proof |-> GetProof(ProvedBlock.txs, 1)]),
     ToBytes(NewInclusionProof(<<2>>, 2)),
     BadBytes}

\* ConstraintProofs: the lists of constraint types and of proofs a request
\* can carry, of equal length or not.
ProofTypeLists == {<<>>, <<INCLUSION_CONSTRAINT_TYPE>>, <<2>>,
                   <<INCLUSION_CONSTRAINT_TYPE, INCLUSION_CONSTRAINT_TYPE>>}
ProofPayloadLists ==
    {<<>>} \cup {<<bytes>> : bytes \in AnyProofPayloads} \cup
    {<<ToBytes(NewInclusionProof(<<1, 2>>, 1)),
       ToBytes(NewInclusionProof(<<1, 2>>, 2))>>}

\* The bodies a POST /blocks_with_proofs can carry.
BlockRequests ==
    [message : [slot : Slots, txs : BlockTxs],
     proofs  : [constraint_types : ProofTypeLists, payloads : ProofPayloadLists]]

\* SubmitBlockRequestWithProofs::slot
BlockSlot(req) == req.message.slot

\* Mutant: the request is passed on as it came.
IntoBlockRequest_WithProofs(req) == req

\* SubmitBlockRequestWithProofs::into_block_request
IntoBlockRequest(req) == req.message

ZipLen(a, b) == IF Len(a) < Len(b) THEN Len(a) ELSE Len(b)

\* Mutant: the proofs are counted and their types compared, their
\* transaction hashes are not.
VerifyProofCompleteness_TypesOnly(proofs, constraints) ==
    /\ Len(proofs.constraint_types) = Len(constraints)
    /\ \A i \in 1 .. Len(constraints) :
         proofs.constraint_types[i] = constraints[i].constraint_type

\* verify_proof_completeness
VerifyProofCompleteness(proofs, constraints) ==
    /\ Len(proofs.constraint_types) = Len(constraints)
    /\ \A i \in 1 .. Len(constraints) :
         proofs.constraint_types[i] = constraints[i].constraint_type
    /\ \A i \in 1 .. ZipLen(proofs.payloads, constraints) :
         /\ constraints[i].constraint_type = INCLUSION_CONSTRAINT_TYPE
         /\ FromBytes(proofs.payloads[i]) # DecodeError
         /\ FromBytes(proofs.payloads[i]).tx_hash =
                TxHash(constraints[i].payload.signed_tx)

\* TransactionTrieBuilder::prove_batch on the trie built from txs (called
\* with hashes the block holds).
ProveBatch(txs, tx_hashes) ==
    [constraint_types |-> [k \in 1 .. Len(tx_hashes) |-> INCLUSION_CONSTRAINT_TYPE],
     payloads         |-> [k \in 1 .. Len(tx_hashes) |->
                              ToBytes(NewInclusionProof(txs, tx_hashes[k]))]]

\* TransactionTrieBuilder::verify_batch on the trie built from txs: each
\* proof is of the inclusion type, decodes, verifies under the root of the
\* trie, and the transaction it proves has the hash the proof names.
VerifyBatch(txs, proofs) ==
    \A i \in 1 .. ZipLen(proofs.constraint_types, proofs.payloads) :
        /\ proofs.constraint_types[i] = INCLUSION_CONSTRAINT_TYPE
        /\ FromBytes(proofs.payloads[i]) # DecodeError
        /\ LET inclusion_proof == FromBytes(proofs.payloads[i])
               tx == VerifyProof(Root(txs), inclusion_proof.tx_index,
                                 inclusion_proof.proof)
           IN  /\ tx # NoTx
               /\ TxHash(tx) = inclusion_proof.tx_hash

\* verify_constraints
VerifyConstraints(block, proofs) == VerifyBatch(block.txs, proofs)

\* Mutant: the lists of types and of proofs are not compared in length.
HandleProofValidation_NoEnvelope(req, sc) ==
    /\ VerifyProofCompleteness(req.proofs, sc.message.constraints)
    /\ VerifyConstraints(req.message, req.proofs)

\* Mutant: any number of proofs is taken.
HandleProofValidation_NoMaximum(req, sc) ==
    /\ Len(req.proofs.constraint_types) = Len(req.proofs.payloads)
    /\ VerifyProofCompleteness(req.proofs, sc.message.constraints)
    /\ VerifyConstraints(req.message, req.proofs)

\* handle_proof_validation
HandleProofValidation(req, sc) ==
    /\ Len(req.proofs.constraint_types) = Len(req.proofs.payloads)
    /\ ~(Len(req.proofs.constraint_types) > MAX_CONSTRAINTS_PER_SLOT)
    /\ VerifyProofCompleteness(req.proofs, sc.message.constraints)
    /\ VerifyConstraints(req.message, req.proofs)

\* post_blocks_with_proofs up to the call of the downstream relay: the
\* stored constraints of the block's slot are read and the proofs
\* validated against them.
RelayPostBlockOf(h, requests) ==
    /\ rQ[h].pc = "idle"
    /\ \E req \in requests, readOk \in BOOLEAN :
         LET sc == GetSignedConstraints(rCons, BlockSlot(req))
         IN  rQ' = [rQ EXCEPT ![h] =
                      IF ~readOk
                      THEN QResponded("post_blocks", req, FALSE, None, "err_store",
                                      None)
                      ELSE IF sc = None
                      THEN QResponded("post_blocks", req, FALSE, None,
                                      "err_not_found", None)
                      ELSE IF ~HandleProofValidation(req, sc)
                      THEN QResponded("post_blocks", req, FALSE, sc, "err_proofs",
                                      None)
                      ELSE [pc |-> "forward", kind |-> "post_blocks", req |-> req,
                            passed |-> FALSE, prev |-> sc, status |-> "none",
                            body |-> None]]
    /\ UNCHANGED <<notRelayVars, now, rDeleg, rLookahead, rH, rCons, rDown>>

\* A POST /blocks_with_proofs with any body.
RelayPostBlock(h) == RelayPostBlockOf(h, BlockRequests)

\* A list of n copies of x.
Repeat(x, n) == [k \in 1 .. n |-> x]

\* The signed constraints this gateway posts for slot 1 when it holds as
\* many constraints as the maximum, or one more: the relay does not count
\* the constraints of a POST /constraints.
OverMaxConstraints ==
    {[message |-> [proposer    |-> BeaconProposer(1),
                   delegate    |-> GatewayPublicKey,
                   slot        |-> 1,
                   constraints |-> Repeat(ConstraintOf(1, 1), n),
                   receivers   |-> {}],
      signer  |-> GatewayPublicKey] :
        n \in {MAX_CONSTRAINTS_PER_SLOT, MAX_CONSTRAINTS_PER_SLOT + 1}}

\* A POST /constraints from this gateway with that many constraints.
RelayPostOverMaxConstraints(h) == RelayPostConstraintsOf(h, OverMaxConstraints)

\* The numbers of proof types and of payloads a builder sends for such a
\* slot: none, the maximum, one more, two more.
OverMaxLens ==
    {0, MAX_CONSTRAINTS_PER_SLOT, MAX_CONSTRAINTS_PER_SLOT + 1,
     MAX_CONSTRAINTS_PER_SLOT + 2}

\* The blocks with proofs builders submit for slot 1: genuine proofs of the
\* constrained transaction, as many as the builder chooses.
OverMaxBlockRequests ==
    {[message |-> ProvedBlock,
      proofs  |-> [constraint_types |-> Repeat(INCLUSION_CONSTRAINT_TYPE, m),
                   payloads         |->
                       Repeat(ToBytes(NewInclusionProof(ProvedBlock.txs, 1)), n)]] :
        m \in OverMaxLens, n \in OverMaxLens}

\* A POST /blocks_with_proofs with such a body.
RelayPostOverMaxBlock(h) == RelayPostBlockOf(h, OverMaxBlockRequests)

\* LegacyRelayClient::submit_block: the block without its proofs is sent to
\* the downstream relay, unless the connection fails; the result is Ok when
\* the downstream relay answers with success.
RelayForwardBlock(h) ==
    /\ rQ[h].pc = "forward"
    /\ \E answer \in {"success", "failure", "unreachable"} :
         /\ rDown' = IF answer = "unreachable" THEN rDown
                     ELSE IntoBlockRequest(rQ[h].req)
         /\ rQ' = [rQ EXCEPT ![h] =
                     QResponded("post_blocks", @.req, FALSE, @.prev,
                                IF answer = "success" THEN "ok"
                                ELSE "err_downstream", None)]
    /\ UNCHANGED <<notRelayVars, now, rDeleg, rLookahead, rH, rCons>>

\* A slot passes; the clock runs one slot past the last slot constraints can
\* be held for.
SlotPasses ==
    /\ now < MaxSlot + 1
    /\ now' = now + 1
    /\ UNCHANGED <<proposerVars, relayVars, gatewayVars, libVars>>

\* The response leaves the relay; the task ends.
RelayQRespond(h) ==
    /\ rQ[h].pc = "done"
    /\ rQ' = [rQ EXCEPT ![h] = IdleQ]
    /\ UNCHANGED <<notRelayVars, now, rDeleg, rLookahead, rH, rCons, rDown>>

\* ----------------------------------------- the gateway and its relay

\* DelegationManager::update_delegations against the relay itself: the
\* delegation fetched for a slot is the one the relay holds.
GwFetchFromRelay ==
    /\ \E slot \in Slots, fetched \in BOOLEAN, storeOk \in BOOLEAN :
         /\ slot >= now
         /\ ~IsDelegated(gDeleg, slot)
         /\ GetDelegation(rDeleg, slot) # None
         /\ gDeleg' = IF /\ fetched
                         /\ IsForThisGateway(GetDelegation(rDeleg, slot))
                         /\ storeOk
                      THEN StoreDelegation(gDeleg, GetDelegation(rDeleg, slot))
                      ELSE gDeleg
    /\ UNCHANGED <<notGatewayVars, now, gStore, gFlag, gH, sPc, sTarget, sMsg, sOut,
                   gAcked, gLate, gPoll>>

\* The delegations the scheduled proposers sign, to any delegate.
ProposerDelegations ==
    {sd \in DelegationRequests :
        /\ sd.signer = sd.message.proposer
        /\ sd.message.proposer = BeaconProposer(sd.message.slot)
        /\ sd.message.committer = GatewayAddress}

\* A POST /delegation of a scheduled proposer.
RelayPostProposerDelegation(h) == RelayPostDelegationOf(h, ProposerDelegations)

\* The signed constraints of one constraint for no receiver, signed by the
\* delegate they name.
DelegateConstraints ==
    {sc \in ConstraintsRequests :
        /\ sc.signer = sc.message.delegate
        /\ sc.message.receivers = {}
        /\ Len(sc.message.constraints) = 1}

\* A POST /constraints of a delegate.
RelayPostDelegateConstraints(h) == RelayPostConstraintsOf(h, DelegateConstraints)

\* post_constraints: the POST /constraints leaves the gateway.  It reaches
\* the relay, whose handler h makes its checks, or it does not and the
\* call fails.
SchedPostSend(h) ==
    /\ sPc = "post"
    /\ \/ /\ rQ[h].pc = "idle"
          /\ \E readOk \in BOOLEAN :
               rQ' = [rQ EXCEPT ![h] =
                        AfterConstraintsChecks(
                            sMsg, PostConstraintsChecks(sMsg, now, rDeleg, readOk))]
          /\ sPc' = "await"
          /\ UNCHANGED <<sTarget, sMsg, sOut, gAcked>>
       \/ /\ SchedPostResult(FALSE)
          /\ rQ' = rQ
    /\ UNCHANGED <<proposerVars, libVars, now, gDeleg, gStore, gFlag, gH, gLate, gPoll,
                   rDeleg, rLookahead, rH, rCons, rDown>>

\* post_constraints: the relay's answer arrives, or the call times out.
SchedPostAnswer(h) ==
    /\ sPc = "await"
    /\ \/ /\ rQ[h].pc = "done"
          /\ rQ[h].req = sMsg
          /\ SchedPostResult(rQ[h].status = "ok")
          /\ rQ' = [rQ EXCEPT ![h] = IdleQ]
       \/ /\ SchedPostResult(FALSE)
          /\ rQ' = rQ
    /\ UNCHANGED <<proposerVars, libVars, now, gDeleg, gStore, gFlag, gH, gLate, gPoll,
                   rDeleg, rLookahead, rH, rCons, rDown>>

\* ------------------------------------------------------ background loops
\* The loops that run beside the request handlers: the proposer's delegation
\* polling (main), the gateway's ConstraintManager::run and
\* DelegationManager::run, the relay's LookaheadManager::run.
Loops == {"proposer_delegation", "gateway_constraints", "gateway_delegation",
          "relay_lookahead"}

\* The dependencies an iteration of each loop calls, any of which can fail.
Dependencies(l) ==
    CASE l = "proposer_delegation" -> {"beacon", "signer", "store", "relay"}
      [] l = "gateway_constraints" -> {"store", "signer", "relay"}
      [] l = "gateway_delegation"  -> {"relay", "store"}
      [] l = "relay_lookahead"     -> {"beacon", "store"}

\* How an iteration can end: "ok", or the dependency that failed.
IterationResults(l) == {"ok"} \cup Dependencies(l)

\* Mutant: the error of an iteration is passed on to the caller of the loop.
AfterIteration_Propagate(result) == IF result = "ok" THEN "waiting" ELSE "ended"

\* `if let Err(e) = self.iteration().await { error!(..) }` followed by the
\* sleep (the proposer: a match with error!(..) in its Err arm, then the
\* next tick of the interval): where the loop is after an iteration.
AfterIteration(result) == "waiting"

\* The sleep, or the wait for the interval's tick, is over and the next
\* iteration begins.
LoopWake(l) ==
    /\ bg[l].pc = "waiting"
    /\ bg' = [bg EXCEPT ![l].pc = "running"]
    /\ UNCHANGED <<now, proposerVars, relayVars, gatewayVars, call, kv, rd>>

\* One iteration runs to its end; an error is logged.
LoopIterate(l) ==
    /\ bg[l].pc = "running"
    /\ \E result \in IterationResults(l) :
         bg' = [bg EXCEPT ![l] = [pc     |-> AfterIteration(result),
                                  last   |-> result,
                                  logged |-> result # "ok"]]
    /\ UNCHANGED <<now, proposerVars, relayVars, gatewayVars, call, kv, rd>>

\* ------------------------------------------------------ library functions

\* The sequences over S of length at most n.
SeqsUpTo(S, n) == UNION {[1 .. k -> S] : k \in 0 .. n}

\* ------------------------------------------------------------ raw store
\* The raw keys and values of a DatabaseContext; NoValue is what get_raw
\* gives for a key that is not there.
RawKeys == {"k1", "k2"}
RawValues == {"v1"}
NoValue == "none"

\* DbOp
DbOps == [op : {"Put"}, key : RawKeys, value : RawValues] \cup
         [op : {"Delete"}, key : RawKeys]

\* The operations of a WriteBatch, applied in order.
RECURSIVE ApplyOps(_, _)
ApplyOps(db, ops) ==
    IF ops = <<>> THEN db
    ELSE ApplyOps([db EXCEPT ![Head(ops).key] =
                      IF Head(ops).op = "Put" THEN Head(ops).value ELSE NoValue],
                  Tail(ops))

\* Mutant: a write that fails has applied the operations before the last.
DbWrite_PartOnFailure(db, ops, ok) ==
    IF ok THEN ApplyOps(db, ops)
    ELSE ApplyOps(db, SubSeq(ops, 1, Len(ops) - 1))

\* DB::write of a WriteBatch: all of it, or on an error none of it.
DbWrite(db, ops, ok) == IF ok THEN ApplyOps(db, ops) ELSE db

\* DatabaseContext::batch_write_raw; ok is whether the store's write
\* succeeds.
BatchWriteRaw ==
    /\ \E ops \in SeqsUpTo(DbOps, MaxOps), ok \in BOOLEAN :
         /\ kv' = DbWrite(kv, ops, ok)
         /\ call' = [fn |-> "batch_write_raw", args |-> <<ops>>, result |-> ok]
    /\ UNCHANGED <<now, proposerVars, relayVars, gatewayVars, rd, bg>>

\* DatabaseContext::put_raw
PutRaw ==
    /\ \E key \in RawKeys, value \in RawValues, ok \in BOOLEAN :
         LET ops == <<[op |-> "Put", key |-> key, value |-> value]>>
         IN  /\ kv' = DbWrite(kv, ops, ok)
             /\ call' = [fn |-> "put_raw", args |-> <<ops>>, result |-> ok]
    /\ UNCHANGED <<now, proposerVars, relayVars, gatewayVars, rd, bg>>

\* DatabaseContext::delete_raw
DeleteRaw ==
    /\ \E key \in RawKeys, ok \in BOOLEAN :
         LET ops == <<[op |-> "Delete", key |-> key]>>
         IN  /\ kv' = DbWrite(kv, ops, ok)
             /\ call' = [fn |-> "delete_raw", args |-> <<ops>>, result |-> ok]
    /\ UNCHANGED <<now, proposerVars, relayVars, gatewayVars, rd, bg>>

\* The keys a concurrent reader asks multi_get_raw for, in this order.
ReadKeys == <<"k1", "k2">>
NotReading == <<"idle">>

\* DatabaseContext::multi_get_raw, one get of its loop at a time; the
\* writers run between the gets.
MultiGetRawStart ==
    /\ rd = NotReading
    /\ rd' = <<>>
    /\ UNCHANGED <<now, proposerVars, relayVars, gatewayVars, call, kv, bg>>

MultiGetRawGet ==
    /\ rd # NotReading
    /\ Len(rd) < Len(ReadKeys)
    /\ rd' = Append(rd, kv[ReadKeys[Len(rd) + 1]])
    /\ UNCHANGED <<now, proposerVars, relayVars, gatewayVars, call, kv, bg>>

MultiGetRawReturn ==
    /\ rd # NotReading
    /\ Len(rd) = Len(ReadKeys)
    /\ rd' = NotReading
    /\ UNCHANGED <<now, proposerVars, relayVars, gatewayVars, call, kv, bg>>

\* Constraint types: the inclusion type and one the relay does not support.
ConstraintTypes == {INCLUSION_CONSTRAINT_TYPE, 2}

\* The constraints a stored SignedConstraints can hold: the relay stores
\* what the delegate signed, whatever the types.
AnyConstraints ==
    {[constraint_type |-> INCLUSION_CONSTRAINT_TYPE,
      payload         |-> [slot |-> 1, signed_tx |-> 1]],
     [constraint_type |-> INCLUSION_CONSTRAINT_TYPE,
      payload         |-> [slot |-> 1, signed_tx |-> 2]],
     [constraint_type |-> 2,
      payload         |-> [slot |-> 1, signed_tx |-> 1]]}

\* A call of handle_proof_validation with a block request and the signed
\* constraints stored for its slot.
CallHandleProofValidation ==
    /\ call = None
    /\ \E types \in SeqsUpTo(ConstraintTypes, MaxProofs),
          payloads \in SeqsUpTo(AnyProofPayloads, MaxProofs),
          constraints \in SeqsUpTo(AnyConstraints, MaxProofs) :
         LET req == [message |-> ProvedBlock,
                     proofs  |-> [constraint_types |-> types,
                                  payloads         |-> payloads]]
             sc  == [message |-> [proposer    |-> BeaconProposer(1),
                                  delegate    |-> GatewayPublicKey,
                                  slot        |-> 1,
                                  constraints |-> constraints,
                                  receivers   |-> ConstraintsReceivers],
                     signer  |-> GatewayPublicKey]
         IN  call' = [fn     |-> "handle_proof_validation",
                      args   |-> <<req, sc>>,
                      result |-> HandleProofValidation(req, sc)]
    /\ UNCHANGED <<now, proposerVars, relayVars, gatewayVars, kv, rd, bg>>

\* The caller takes the result of the call; the functions keep nothing
\* between calls.
CallReturn ==
    /\ call # None
    /\ call' = None
    /\ UNCHANGED <<now, proposerVars, relayVars, gatewayVars, kv, rd, bg>>

\* The non-empty transaction lists of a block, repeated transactions
\* included.
TxLists == SeqsUpTo(Txs, MaxProofs) \ {<<>>}

\* The transactions the proofs of a batch prove, in order: the value each
\* proof verifies to under the root of the trie built from txs.
RecoveredTxs(txs, proofs) ==
    [k \in 1 .. Len(proofs.payloads) |->
        IF FromBytes(proofs.payloads[k]) = DecodeError THEN NoTx
        ELSE VerifyProof(Root(txs), FromBytes(proofs.payloads[k]).tx_index,
                         FromBytes(proofs.payloads[k]).proof)]

\* prove_batch on a trie built from txs, for hashes of transactions of
\* txs, and verify_batch of the result on another trie built from txs.
CallProveAndVerifyBatch ==
    /\ call = None
    /\ \E txs \in TxLists :
         \E tx_hashes \in SeqsUpTo({TxHash(txs[i]) : i \in 1 .. Len(txs)}, MaxProofs) :
            call' = [fn     |-> "prove_batch_verify_batch",
                     args   |-> <<txs, tx_hashes>>,
                     result |-> [proofs    |-> ProveBatch(txs, tx_hashes),
                                 accepted  |-> VerifyBatch(txs,
                                                  ProveBatch(txs, tx_hashes)),
                                 recovered |-> RecoveredTxs(txs,
                                                  ProveBatch(txs, tx_hashes))]]
    /\ UNCHANGED <<now, proposerVars, relayVars, gatewayVars, kv, rd, bg>>

\* The row store_signed_commitment_and_constraint writes for a request.
RowOf(req) ==
    [key   |-> CommitmentKey(req.payload.slot, RequestHash(req)),
     value |-> [commitment |-> CreateSignedCommitment(req, GatewayAddress, FirstNonce),
                constraint |-> CreateConstraintFromCommitmentRequest(req)]]

\* A call of post_constraints(slot, delegation) on a store that holds the
\* rows of any requests, of the slot and of other slots; the result is the
\* message handed to the signer, or None when there is nothing to commit.
CallPostConstraints ==
    /\ call = None
    /\ \E reqs \in SUBSET InclusionRequests, slot \in Slots,
          p \in ProposerKeys, d \in DelegateKeys :
         LET store      == {RowOf(req) : req \in reqs}
             delegation == [message |-> [proposer  |-> p,
                                         delegate  |-> d,
                                         committer |-> GatewayAddress,
                                         slot      |-> slot,
                                         metadata  |-> EmptyBytes],
                            signer  |-> p]
         IN  call' = [fn     |-> "post_constraints",
                      args   |-> <<store, slot, delegation>>,
                      result |-> IF NothingToCommit(GetConstraintsInRange(store, slot))
                                 THEN None
                                 ELSE BuildConstraintsMessage(store, slot, delegation)]
    /\ UNCHANGED <<now, proposerVars, relayVars, gatewayVars, kv, rd, bg>>

\* ------------------------------------------------------------ range scans
\* Keys as the byte strings the services write: <<kind, slot>> for
\* [ kind ][ slot_be ] and <<kind, slot, hash>> for a commitment key; the
\* store iterates them in byte order, which is the order of the numbers
\* position by position, a prefix first.
ScanKinds == {1, 2}
ScanHashes == {1, 2}
ScanKeys ==
    {<<1, slot>> : slot \in Slots}
        \cup {<<2, slot, hash>> : slot \in Slots, hash \in ScanHashes}

RECURSIVE KeyLess(_, _)
KeyLess(a, b) ==
    IF b = <<>> THEN FALSE
    ELSE IF a = <<>> THEN TRUE
    ELSE IF Head(a) # Head(b) THEN Head(a) < Head(b)
    ELSE KeyLess(Tail(a), Tail(b))

\* The value stored under a key (one value per key).
ValueAt(key) == <<"value", key>>

\* slot_prefix(kind, slot)
SlotPrefix(kind, slot) == <<kind, slot>>

\* Mutant: the scan runs on into the rows of the next kind.
OtherTable_Never(k, kind) == FALSE

\* `if k != kind { break; }`
OtherTable(k, kind) == k # kind

\* The loop of scan_slot_range_kind over the keys still ahead of the
\* iterator: what it pushes, and how many keys it looks at before it ends.
RECURSIVE ScanLoop(_, _, _, _)
ScanLoop(ahead, kind, start_slot, end_slot) ==
    IF ahead = {}
    THEN [out |-> <<>>, seen |-> 0]
    ELSE LET key  == CHOOSE k \in ahead : \A o \in ahead \ {k} : KeyLess(k, o)
             rest == ScanLoop(ahead \ {key}, kind, start_slot, end_slot)
         IN  IF Len(key) < 2
             THEN [out |-> rest.out, seen |-> rest.seen + 1]
             ELSE IF OtherTable(key[1], kind)
             THEN [out |-> <<>>, seen |-> 1]
             ELSE IF key[2] < start_slot
             THEN [out |-> rest.out, seen |-> rest.seen + 1]
             ELSE IF key[2] > end_slot
             THEN [out |-> <<>>, seen |-> 1]
             ELSE [out  |-> <<<<key[2], ValueAt(key)>>>> \o rest.out,
                   seen |-> rest.seen + 1]

\* scan_slot_range_kind: IteratorMode::From(start_key, Forward)
ScanSlotRangeKind(db, kind, start_slot, end_slot) ==
    IF start_slot > end_slot
    THEN [out |-> <<>>, seen |-> 0]
    ELSE ScanLoop({k \in db : ~KeyLess(k, SlotPrefix(kind, start_slot))},
                  kind, start_slot, end_slot)

\* A call of scan_slot_range_kind on a store that holds any rows.
CallScanSlotRangeKind ==
    /\ call = None
    /\ \E db \in SUBSET ScanKeys, kind \in ScanKinds,
          start_slot \in Slots, end_slot \in Slots :
         call' = [fn     |-> "scan_slot_range_kind",
                  args   |-> <<db, kind, start_slot, end_slot>>,
                  result |-> ScanSlotRangeKind(db, kind, start_slot, end_slot)]
    /\ UNCHANGED <<now, proposerVars, relayVars, gatewayVars, kv, rd, bg>>

\* ------------------------------------------------------------- slot clock
SLOT_DURATION_SECONDS == 12
SLOT_DURATION_MS == SLOT_DURATION_SECONDS * 1000
CONSTRAINT_TRIGGER_OFFSET_MS == 14000

\* chain.genesis_time_sec(): a chain whose genesis is the epoch, and one
\* whose genesis is three seconds after it.
GenesisTimes == {0, 3}

\* The instants the clock is read at, in milliseconds since the epoch: every
\* half second of the first two slots and more, and the milliseconds next
\* to a slot's start.
Instants ==
    {500 * k : k \in 0 .. 56} \cup {11999, 12001, 14999, 15001, 23999, 26999}

\* The clock goes on between two readings: by nothing, or by two
\* milliseconds.
ClockDelays == {0, 2}

\* current_slot_estimate, with `now` the clock in seconds
CurrentSlotEstimate(genesis_time, nowSecs) ==
    IF nowSecs < genesis_time THEN 0
    ELSE (nowSecs - genesis_time) \div SLOT_DURATION_SECONDS

\* time_until_slot_ms, with now_ms the clock in milliseconds
TimeUntilSlotMs(genesis_time, target_slot, now_ms) ==
    ((genesis_time * 1000) + (target_slot * SLOT_DURATION_MS)) - now_ms

\* time_until_next_slot_ms: the slot is estimated from one reading of the
\* clock, the time until its successor taken from the next.
TimeUntilNextSlotMs(genesis_time, now_ms, later_ms) ==
    TimeUntilSlotMs(genesis_time,
                    CurrentSlotEstimate(genesis_time, now_ms \div 1000) + 1,
                    later_ms)

\* check_and_process_constraints from the reading of the clock to the
\* branch it takes, for a target slot that is delegated and not finalized:
\* the difference to the trigger time, and the branch `now >= trigger_time`
\* chooses.
CallTimeToTrigger ==
    /\ call = None
    /\ \E genesis_time \in GenesisTimes, now_ms \in Instants, delay \in ClockDelays :
         LET diff == TimeUntilNextSlotMs(genesis_time, now_ms, now_ms + delay)
                        - CONSTRAINT_TRIGGER_OFFSET_MS
         IN  call' = [fn     |-> "time_to_trigger",
                      args   |-> <<genesis_time, now_ms, delay>>,
                      result |-> [diff   |-> diff,
                                  branch |-> IF ReleasesAtOnceAt(now_ms \div 1000, diff)
                                             THEN "release" ELSE "sleep"]]
    /\ UNCHANGED <<now, proposerVars, relayVars, gatewayVars, kv, rd, bg>>

\* ---------------------------------------------------------- specifications

Init ==
    /\ call = None
    /\ kv = [k \in RawKeys |-> NoValue]
    /\ rd = NotReading
    /\ bg = [l \in Loops |-> [pc |-> "waiting", last |-> "none", logged |-> FALSE]]
    /\ now = 0
    /\ pDb = [s \in Slots |-> None]
    /\ pPc = "idle"
    /\ pEpochs = 0
    /\ pLeft = 0
    /\ pCur = None
    /\ pSignReq = [s \in Slots |-> 0]
    /\ pWrites = [s \in Slots |-> 0]
    /\ pPosts = [s \in Slots |-> 0]
    /\ pSkipped = [s \in Slots |-> FALSE]
    /\ pCrashAt = [s \in Slots |-> NoCrash]
    /\ pPostErr = [s \in Slots |-> FALSE]
    /\ rDeleg = [s \in Slots |-> None]
    /\ rLookahead = [s \in Slots |-> NoKey]
    /\ rH = [h \in RelayHandlers |-> IdleHandler]
    /\ rCons = [s \in Slots |-> None]
    /\ rQ = [h \in RelayHandlers |-> IdleQ]
    /\ rDown = None
    /\ gDeleg = [s \in Slots |-> None]
    /\ gStore = {}
    /\ gFlag = [s \in Slots |-> FALSE]
    /\ gH = [h \in GatewayHandlers |-> IdleGw]
    /\ sPc = "idle"
    /\ sTarget = None
    /\ sMsg = None
    /\ sOut = NoOut
    /\ gAcked = [s \in Slots |-> FALSE]
    /\ gLate = {}
    /\ gPoll = IdlePoll

ProposerNext ==
    \/ Tick
    \/ ProcessLookaheadStart
    \/ FetchDuties
    \/ ProcessDuty
    \/ PStoreDelegation
    \/ PPostDelegation
    \/ EpochDone
    \/ PCrash

RelayNext ==
    \/ Tick
    \/ LookaheadUpdate
    \/ \E h \in RelayHandlers : RelayPostDelegation(h)
    \/ \E h \in RelayHandlers : RelayCheckExisting(h)
    \/ \E h \in RelayHandlers : RelayStoreDelegation(h)
    \/ \E h \in RelayHandlers : RelayRespond(h)

\* The commitment RPC: parallel commitmentRequest calls and the delegation
\* poller.
GatewayRpcNext ==
    \/ Tick
    \/ GwFetchDelegation
    \/ \E h \in GatewayHandlers : GwCommitmentRequest(h)
    \/ \E h \in GatewayHandlers : GwSign(h)
    \/ \E h \in GatewayHandlers : GwStore(h)
    \/ \E h \in GatewayHandlers : GwRespond(h)
    \/ GwCrash

\* One user making its request again and again, one call at a time, and a
\* signer whose responses carry any nonce.
GatewayRepeatNext ==
    \/ Tick
    \/ GwFetchDelegation
    \/ GwUserCommitmentRequest(1)
    \/ GwSignAnyNonce(1)
    \/ GwStore(1)
    \/ GwRespond(1)
    \/ GwCrash

\* The delegation poller, pass after pass.
GatewayPollerNext ==
    \/ Tick
    \/ PollerStart
    \/ PollerSlot
    \/ GwCrash

\* One commitmentRequest call at a time, with delegations of any committer.
GatewayCommitterNext ==
    \/ Tick
    \/ GwFetchAnyDelegation
    \/ GwCommitmentRequest(1)
    \/ GwSign(1)
    \/ GwStore(1)
    \/ GwRespond(1)
    \/ GwCrash

\* The constraint scheduler beside one inclusion request at a time, with
\* the time each request came in noted.
LateRequestNext ==
    \/ Tick
    \/ GwFetchDelegation
    \/ GwNotedCommitmentRequest(1)
    \/ GwSign(1)
    \/ GwStore(1)
    \/ GwRespond(1)
    \/ SchedCheck
    \/ SchedScan
    \/ SchedPost
    \/ SchedFinalize
    \/ GwCrash

\* The constraint scheduler, its iterations at any time of the slot, beside
\* one user's requests.
TimedSchedulerNext ==
    \/ Tick
    \/ GwFetchDelegation
    \/ GwUserCommitmentRequest(1)
    \/ GwSign(1)
    \/ GwStore(1)
    \/ GwRespond(1)
    \/ SchedCheckAnyTime
    \/ SchedScan
    \/ SchedPost
    \/ SchedFinalize
    \/ GwCrash

\* The constraint scheduler beside one commitmentRequest call at a time.
SchedulerNext ==
    \/ Tick
    \/ GwFetchDelegation
    \/ GwCommitmentRequest(1)
    \/ GwSign(1)
    \/ GwStore(1)
    \/ GwRespond(1)
    \/ SchedCheck
    \/ SchedScan
    \/ SchedPost
    \/ SchedFinalize
    \/ GwCrash

\* The relay serving POST /delegation and POST /constraints, one request of
\* each at a time, beside the lookahead updater.
RelayConstraintsNext ==
    \/ Tick
    \/ LookaheadUpdate
    \/ RelayPostDelegation(1)
    \/ RelayCheckExisting(1)
    \/ RelayStoreDelegation(1)
    \/ RelayRespond(1)
    \/ RelayPostConstraints(1)
    \/ RelayStoreConstraints(1)
    \/ RelayQRespond(1)

\* The relay serving POST /delegation requests in parallel beside
\* POST /constraints.
RelayOverMaxNext ==
    \/ Tick
    \/ LookaheadUpdate
    \/ RelayPostGatewayDelegation(1)
    \/ RelayCheckExisting(1)
    \/ RelayStoreDelegation(1)
    \/ RelayRespond(1)
    \/ RelayPostOverMaxConstraints(1)
    \/ RelayStoreConstraints(1)
    \/ RelayPostOverMaxBlock(1)
    \/ RelayForwardBlock(1)
    \/ RelayQRespond(1)

RelayRaceNext ==
    \/ Tick
    \/ LookaheadUpdate
    \/ \E h \in RelayHandlers : RelayPostProposerDelegation(h)
    \/ \E h \in RelayHandlers : RelayCheckExisting(h)
    \/ \E h \in RelayHandlers : RelayStoreDelegation(h)
    \/ \E h \in RelayHandlers : RelayRespond(h)
    \/ RelayPostDelegateConstraints(1)
    \/ RelayStoreConstraints(1)
    \/ RelayQRespond(1)

\* The relay serving POST /delegation beside POST /constraints and
\* GET /constraints, the constraints requests one at a time.
RelayReadNext ==
    \/ SlotPasses
    \/ LookaheadUpdate
    \/ RelayPostGatewayDelegation(1)
    \/ RelayCheckExisting(1)
    \/ RelayStoreDelegation(1)
    \/ RelayRespond(1)
    \/ RelayPostGatewayConstraints(1)
    \/ RelayStoreConstraints(1)
    \/ RelayGetConstraints(1)
    \/ RelayQRespond(1)

\* The relay serving POST /delegation beside POST /constraints and
\* POST /blocks_with_proofs, the latter two one at a time.
RelayBlocksNext ==
    \/ Tick
    \/ LookaheadUpdate
    \/ RelayPostGatewayDelegation(1)
    \/ RelayCheckExisting(1)
    \/ RelayStoreDelegation(1)
    \/ RelayRespond(1)
    \/ RelayPostReceiverConstraints(1)
    \/ RelayStoreConstraints(1)
    \/ RelayPostBlock(1)
    \/ RelayForwardBlock(1)
    \/ RelayQRespond(1)

\* The gateway's scheduler posting to the relay that holds the
\* delegations the gateway fetches.
GatewayRelayNext ==
    \/ Tick
    \/ LookaheadUpdate
    \/ RelayPostGatewayDelegation(1)
    \/ RelayCheckExisting(1)
    \/ RelayStoreDelegation(1)
    \/ RelayRespond(1)
    \/ GwFetchFromRelay
    \/ GwUserCommitmentRequest(1)
    \/ GwSign(1)
    \/ GwStore(1)
    \/ GwRespond(1)
    \/ SchedCheck
    \/ SchedScan
    \/ SchedPostSend(1)
    \/ RelayStoreConstraints(1)
    \/ SchedPostAnswer(1)
    \/ RelayQRespond(1)
    \/ SchedFinalize
    \/ GwCrash

\* Calls of the proof functions with any arguments.
LibraryNext ==
    \/ CallHandleProofValidation
    \/ CallProveAndVerifyBatch
    \/ CallPostConstraints
    \/ CallScanSlotRangeKind
    \/ CallTimeToTrigger
    \/ CallReturn

\* The background loops of the three services.
LoopsNext ==
    \/ \E l \in Loops : LoopWake(l)
    \/ \E l \in Loops : LoopIterate(l)

\* A store with its writers and a reader.
StoreNext ==
    \/ BatchWriteRaw
    \/ PutRaw
    \/ DeleteRaw
    \/ MultiGetRawStart
    \/ MultiGetRawGet
    \/ MultiGetRawReturn

\* The proposer service alone, with the beacon node, the signer and the
\* relay as its environment.
ProposerSpec == Init /\ [][ProposerNext]_vars

\* The relay service alone, with its callers and the beacon node as its
\* environment.
RelaySpec == Init /\ [][RelayNext]_vars

\* The relay receiving delegations and signed constraints.
RelayConstraintsSpec == Init /\ [][RelayConstraintsNext]_vars

\* The relay receiving delegations in parallel, and signed constraints.
RelayRaceSpec == Init /\ [][RelayRaceNext]_vars

\* The relay with a gateway that posts as many constraints as the maximum
\* or more, and builders that submit blocks for them.
RelayOverMaxSpec == Init /\ [][RelayOverMaxNext]_vars

\* The relay with the readers of its constraints.
RelayReadSpec == Init /\ [][RelayReadNext]_vars

\* The relay with the builders that submit blocks.
RelayBlocksSpec == Init /\ [][RelayBlocksNext]_vars

\* The gateway and the relay together, with the proposers, the users and
\* the signer as their environment.
GatewayRelaySpec == Init /\ [][GatewayRelayNext]_vars

\* The library functions, called with any arguments.
LibrarySpec == Init /\ [][LibraryNext]_vars

\* The background loops, each on its own task; the runtime lets every task
\* run, every sleep ends and every iteration returns.
LoopsFairSpec ==
    /\ Init
    /\ [][LoopsNext]_vars
    /\ \A l \in Loops : WF_vars(LoopWake(l)) /\ WF_vars(LoopIterate(l))

\* A store written and read concurrently.
StoreSpec == Init /\ [][StoreNext]_vars

\* The gateway's commitment RPC, with its callers, the signer and the relay
\* as its environment.
GatewayRpcSpec == Init /\ [][GatewayRpcNext]_vars

\* The gateway's delegation poller, with the relay as its environment.
GatewayPollerSpec == Init /\ [][GatewayPollerNext]_vars

\* The gateway's commitment RPC when a request is repeated.
GatewayRepeatSpec == Init /\ [][GatewayRepeatNext]_vars

\* The gateway's commitment RPC when proposers delegate to several committer
\* addresses.
GatewayCommitterSpec == Init /\ [][GatewayCommitterNext]_vars

\* The gateway's constraint scheduler and commitment RPC, with the signer
\* and the relay as their environment.
SchedulerSpec == Init /\ [][SchedulerNext]_vars

\* The scheduler with the clock it reads before a release.
TimedSchedulerSpec == Init /\ [][TimedSchedulerNext]_vars

\* The scheduler and the requests that come in while it releases.
LateRequestSpec == Init /\ [][LateRequestNext]_vars

\* ------------------------------------------------------------------ claims

\* C1: for every slot the proposer's store is written at most once, and a
\* duty whose slot already has a stored delegation is skipped: no step of a
\* polling pass requests a signature for that slot or writes its record.
C1_DelegationUniqueness ==
    /\ [](\A s \in Slots : pWrites[s] <= 1)
    /\ [][\A s \in Slots :
            pDb[s] # None =>
              /\ pSignReq'[s] = pSignReq[s]
              /\ pWrites'[s] = pWrites[s]
              /\ pDb'[s] = pDb[s]]_vars

\* A duty for a slot was skipped after the slot's delegation had been signed
\* and stored once.
C1_Witness ==
    \E s \in Slots : pSkipped[s] /\ pWrites[s] = 1 /\ pSignReq[s] = 1

\* C2: a POST /delegation that arrives when its slot already has a stored
\* delegation ends with an error, and no step of its handler changes the
\* relay's delegation store.
C2_RelayEquivocationGuard ==
    [][\A h \in RelayHandlers :
         (rH'[h] # rH[h] /\ rH'[h].had) =>
           /\ rDeleg' = rDeleg
           /\ rH'[h].pc \in {"check", "done"}
           /\ rH'[h].pc = "done" => rH'[h].status # "ok"]_vars

\* A well-formed, correctly signed delegation of the scheduled proposer was
\* rejected by the existence check.
C2_Witness ==
    \E h \in RelayHandlers :
        /\ rH[h].pc = "done"
        /\ rH[h].had
        /\ rH[h].status = "err_equivocation"
        /\ rDeleg[rH[h].slot] # None

\* C3 (as claimed): once a delegation is stored for a slot, no later step
\* of the relay replaces it by another.
C3_Original ==
    [][\A s \in Slots : rDeleg[s] # None => rDeleg'[s] = rDeleg[s]]_vars

\* C7: a POST /delegation for a slot is emitted only when the store holds
\* the delegation being posted: every slot with a POST has a stored
\* delegation, and at the point of the POST the stored record is the one in
\* hand.
C7_StoreBeforePost ==
    /\ \A s \in Slots : pPosts[s] > 0 => pDb[s] # None
    /\ pPc = "stored" => pDb[pCur.message.slot] = pCur

\* A delegation was stored and then posted.
C7_Witness ==
    \E s \in Slots : pPosts[s] = 1 /\ pWrites[s] = 1 /\ pDb[s] # None

\* C8 (as claimed): after a crash with a signed delegation for slot s in
\* hand (signed, not yet sent), no signature is requested for s again.
C8_Original ==
    [][\A s \in Slots :
         pCrashAt[s] # NoCrash => pSignReq'[s] = pSignReq[s]]_vars

\* C8 (amended): after a crash that happens once the signed delegation for
\* slot s has been stored and before it is sent, no signature is requested
\* for s again.
C8_NoResignAfterStoredCrash ==
    [][\A s \in Slots :
         pCrashAt[s] = "stored" => pSignReq'[s] = pSignReq[s]]_vars

\* The proposer crashed between store and POST, restarted, met a duty for
\* the slot again and skipped it.
C8_Witness ==
    \E s \in Slots :
        pCrashAt[s] = "stored" /\ pSkipped[s] /\ pPosts[s] = 0 /\ pSignReq[s] = 1

\* The key of the request a call is serving, once the request has a slot.
HasKey(req) == req # None /\ req.payload # BadPayload

\* C4: After a successful commitmentRequest both the signed commitment and
\* its constraint are readable for the request's (slot, request_hash); a
\* failed commitmentRequest leaves the store exactly as it was; and in no
\* state, a failed write included, is exactly one of the two present.
C4_CommitmentConstraintAtomicity ==
    /\ [](\A r \in gStore :
            ReadableCommitment(gStore, r.key.slot, r.key.request_hash)
            <=> ReadableConstraint(gStore, r.key.slot, r.key.request_hash))
    /\ [](\A h \in GatewayHandlers :
            (gH[h].pc = "done" /\ gH[h].status = "ok") =>
               /\ ReadableCommitment(gStore, gH[h].req.payload.slot,
                                     RequestHash(gH[h].req))
               /\ ReadableConstraint(gStore, gH[h].req.payload.slot,
                                     RequestHash(gH[h].req)))
    /\ [][\A h \in GatewayHandlers :
            (gH'[h] # gH[h] /\ gH'[h].pc = "done" /\ gH'[h].status # "ok")
               => gStore' = gStore]_vars

\* One call has succeeded and its pair is readable while another call has
\* failed at the store and nothing exists under its key.
C4_Witness ==
    \E h1, h2 \in GatewayHandlers :
        /\ gH[h1].pc = "done" /\ gH[h1].status = "ok"
        /\ ReadableCommitment(gStore, gH[h1].req.payload.slot, RequestHash(gH[h1].req))
        /\ ReadableConstraint(gStore, gH[h1].req.payload.slot, RequestHash(gH[h1].req))
        /\ gH[h2].pc = "done" /\ gH[h2].status = "err_store"
        /\ ~ReadableCommitment(gStore, gH[h2].req.payload.slot, RequestHash(gH[h2].req))
        /\ ~ReadableConstraint(gStore, gH[h2].req.payload.slot, RequestHash(gH[h2].req))

\* C4 as stated: in particular, after any failed commitmentRequest neither
\* the commitment nor the constraint is readable for its request_hash.
C4_Original ==
    /\ \A r \in gStore :
          ReadableCommitment(gStore, r.key.slot, r.key.request_hash)
          <=> ReadableConstraint(gStore, r.key.slot, r.key.request_hash)
    /\ \A h \in GatewayHandlers :
          (gH[h].pc = "done" /\ gH[h].status = "ok") =>
             /\ ReadableCommitment(gStore, gH[h].req.payload.slot,
                                   RequestHash(gH[h].req))
             /\ ReadableConstraint(gStore, gH[h].req.payload.slot,
                                   RequestHash(gH[h].req))
    /\ \A h \in GatewayHandlers :
          (gH[h].pc = "done" /\ gH[h].status # "ok" /\ HasKey(gH[h].req)) =>
             /\ ~ReadableCommitment(gStore, gH[h].req.payload.slot,
                                    RequestHash(gH[h].req))
             /\ ~ReadableConstraint(gStore, gH[h].req.payload.slot,
                                    RequestHash(gH[h].req))

\* The scheduler's step asks the signer for a signature or sends a POST
\* /constraints.
SchedEmits == sOut' # sOut /\ sOut'.kind \in {"sign", "post"}

\* C5: Once the finalization flag of slot s is set, no later step of the
\* scheduler signs constraints for s or sends a POST /constraints for s.
C5_FinalizationMonotonicity ==
    /\ [][SchedEmits => ~gFlag[sOut'.slot] /\ ~gFlag'[sOut'.slot]]_vars
    /\ [][\A s \in Slots : gFlag[s] => gFlag'[s]]_vars

\* A later iteration found the flag of its target slot set, with constraints
\* for the slot still in the store, and released nothing.
C5_Witness ==
    /\ sOut.kind = "skip"
    /\ gFlag[sOut.slot]
    /\ GetConstraintsInRange(gStore, sOut.slot) # <<>>
    /\ sPc = "idle"

\* C6: The finalization flag of slot s is set only by the step that follows
\* an acknowledged POST /constraints for s in the same release; a failed
\* signature or a failed POST ends the release with the flag as it was; so
\* a set flag implies that signed constraints for s were released.
C6_FlagOnlyAfterAcknowledgedPost ==
    /\ [](\A s \in Slots : gFlag[s] => gAcked[s])
    /\ [](sPc = "finalize" =>
            sOut = [kind |-> "post", slot |-> sTarget.message.slot, ok |-> TRUE])
    /\ [][\A s \in Slots : gFlag'[s] # gFlag[s] =>
            /\ sPc = "finalize"
            /\ sTarget.message.slot = s
            /\ sOut = [kind |-> "post", slot |-> s, ok |-> TRUE]]_vars
    /\ [][(SchedEmits /\ ~sOut'.ok) => (sPc' = "idle" /\ gFlag' = gFlag)]_vars

\* A release of slot s was acknowledged by the relay and the step after it
\* set the flag.
C6_Witness ==
    \E s \in Slots : gFlag[s] /\ gAcked[s] /\ sPc = "idle" /\ sOut = NoOut

\* C9: A commitmentRequest hands a SignedCommitment to its caller only when
\* the store holds that commitment together with its constraint; a call
\* whose store write failed answers with an error and no commitment.
C9_ReturnOnlyAfterWrite ==
    /\ [](\A h \in GatewayHandlers :
            (gH[h].pc = "done" /\ gH[h].signed # None) =>
               /\ gH[h].status = "ok"
               /\ GetSignedCommitmentAndConstraint(
                      gStore, gH[h].req.payload.slot, RequestHash(gH[h].req))
                  = [commitment |-> gH[h].signed,
                     constraint |-> CreateConstraintFromCommitmentRequest(gH[h].req)])
    /\ [][\A h \in GatewayHandlers :
            (gH[h].pc = "store" /\ gH'[h].pc = "done"
             /\ GetSignedCommitmentAndConstraint(
                    gStore', gH[h].req.payload.slot, RequestHash(gH[h].req)) = None)
               => (gH'[h].status = "err_store" /\ gH'[h].signed = None)]_vars

\* A call is about to return its SignedCommitment, which the store holds.
C9_Witness ==
    \E h \in GatewayHandlers :
        /\ gH[h].pc = "done" /\ gH[h].status = "ok"
        /\ gH[h].signed = CreateSignedCommitment(gH[h].req, GatewayAddress, FirstNonce)
        /\ [key   |-> CommitmentKey(gH[h].req.payload.slot, RequestHash(gH[h].req)),
            value |-> [commitment |-> gH[h].signed,
                       constraint |-> CreateConstraintFromCommitmentRequest(gH[h].req)]]
           \in gStore

\* C10: A commitmentRequest whose signer call fails ends with an error and
\* writes nothing; every commitment in the store, and every commitment about
\* to be written, carries a signature the signer produced.
C10_SignerFailureAborts ==
    /\ [](\A r \in gStore : r.value.commitment # None
                            /\ r.value.commitment.signer # NoSignature)
    /\ [](\A h \in GatewayHandlers :
            gH[h].pc = "store" => gH[h].signed.signer # NoSignature)
    /\ [][\A h \in GatewayHandlers :
            (gH[h].pc = "sign" /\ gH'[h].pc = "done" /\ gH'[h].status = "err_signer")
               => (gStore' = gStore /\ gH'[h].signed = None)]_vars
    /\ [][gStore' # gStore =>
            \E h \in GatewayHandlers :
                /\ gH[h].pc = "store"
                /\ gH[h].signed.signer # NoSignature
                /\ gH'[h].pc = "done"]_vars

\* The signer failed for a call: the call has its error and the store holds
\* nothing under the request's key.
C10_Witness ==
    \E h \in GatewayHandlers :
        /\ gH[h].pc = "done" /\ gH[h].status = "err_signer"
        /\ gH[h].signed = None
        /\ GetSignedCommitmentAndConstraint(
               gStore, gH[h].req.payload.slot, RequestHash(gH[h].req)) = None

\* C11: Every SignedCommitment the gateway makes for a request naming slot s
\* (in a call, returned, or stored) is signed with the committer address of
\* the delegation the gateway's store holds for s, and the call took that
\* address from the delegation when the request came in.
C11_SignedWithDelegatedCommitter ==
    /\ [](\A h \in GatewayHandlers :
            gH[h].signed # None =>
               /\ IsDelegated(gDeleg, gH[h].req.payload.slot)
               /\ gH[h].signed.signer =
                    GetDelegation(gDeleg, gH[h].req.payload.slot).message.committer)
    /\ [](\A r \in gStore :
            /\ IsDelegated(gDeleg, r.key.slot)
            /\ r.value.commitment.signer =
                 GetDelegation(gDeleg, r.key.slot).message.committer)
    /\ [][\A h \in GatewayHandlers :
            (gH[h].pc = "idle" /\ gH'[h].pc = "sign") =>
               gH'[h].committer =
                 GetDelegation(gDeleg, gH'[h].req.payload.slot).message.committer]_vars

\* A call returns a commitment signed with the address of a delegation that
\* names another committer than the gateway's usual one.
C11_Witness ==
    \E h \in GatewayHandlers :
        /\ gH[h].pc = "done" /\ gH[h].status = "ok"
        /\ gH[h].signed.signer = OtherAddress
        /\ GetDelegation(gDeleg, gH[h].req.payload.slot).message.committer = OtherAddress

\* The request is one the gateway must refuse: wrong type, a slot that is
\* not in the future, or no delegation held for the slot.
MustRefuse(req) ==
    \/ req.commitment_type # INCLUSION_COMMITMENT_TYPE
    \/ /\ req.payload # BadPayload
       /\ \/ req.payload.slot <= now
          \/ ~IsDelegated(gDeleg, req.payload.slot)

\* C12: A commitmentRequest whose type is not INCLUSION_COMMITMENT_TYPE,
\* whose slot is not after the current slot, or for whose slot the gateway
\* holds no delegation, ends at once with error -32602: the signer is not
\* called and the store is unchanged.
C12_InvalidRequestRejected ==
    [][\A h \in GatewayHandlers :
         (gH[h].pc = "idle" /\ gH'[h].pc # "idle" /\ MustRefuse(gH'[h].req)) =>
            /\ gH'[h].pc = "done"
            /\ gH'[h].signed = None
            /\ ErrorCode(gH'[h].status) = -32602
            /\ gStore' = gStore]_vars

\* Calls refused for a wrong type and for a missing delegation, side by side.
C12_Witness ==
    \E h1, h2 \in GatewayHandlers :
        /\ gH[h1].pc = "done" /\ gH[h1].status = "err_validation"
        /\ gH[h1].req.commitment_type # INCLUSION_COMMITMENT_TYPE
        /\ gH[h2].pc = "done" /\ gH[h2].status = "err_no_delegation"
        /\ gH[h2].req.payload.slot > now
        /\ gStore = {}

\* C13: The relay stores a posted delegation only when its committer is not
\* the zero address, its slot was after the current slot when the request
\* was validated, its signature verifies under the proposer key it names,
\* and the lookahead holds that key for the slot (no entry: rejected).  A
\* request answered with an error leaves the stored delegations unchanged.
C13_DelegationAcceptance ==
    /\ [](\A h \in RelayHandlers :
            rH[h].pc \in {"check", "store"} =>
               /\ rH[h].req.message.committer # ZeroAddress
               /\ rH[h].req.signer = rH[h].req.message.proposer
               /\ rLookahead[rH[h].req.message.slot] # NoKey
               /\ rLookahead[rH[h].req.message.slot] = rH[h].req.message.proposer)
    /\ [][\A h \in RelayHandlers :
            (rH[h].pc = "idle" /\ rH'[h].pc = "check") =>
               rH'[h].req.message.slot > now]_vars
    /\ [][\A s \in Slots :
            rDeleg'[s] # rDeleg[s] =>
               \E h \in RelayHandlers :
                  /\ rH[h].pc = "store"
                  /\ rH[h].req = rDeleg'[s]
                  /\ rH'[h].pc = "done" /\ rH'[h].status = "ok"]_vars
    /\ [][\A h \in RelayHandlers :
            (rH'[h] # rH[h] /\ rH'[h].pc = "done" /\ rH'[h].status # "ok")
               => rDeleg' = rDeleg]_vars

\* A delegation that passed every check is stored, and a request naming a
\* proposer the lookahead does not schedule has been rejected.
C13_Witness ==
    /\ \E s \in Slots : rDeleg[s] # None /\ rLookahead[s] = rDeleg[s].message.proposer
    /\ \E h \in RelayHandlers : rH[h].pc = "done" /\ rH[h].status = "err_proposer"

\* C14: the relay accepts signed constraints only when their slot is ahead
\* of the current slot, their signature verifies under the named delegate,
\* and the relay holds a delegation for the slot whose delegate is that
\* key: a request reaches the write only past these checks, the store
\* of constraints changes only by the write of such a request, and a
\* rejected request leaves the store as it was.
C14_ConstraintsAcceptance ==
    /\ [](\A h \in RelayHandlers :
            rQ[h].pc = "store" => VerifyConstraintsSignature(rQ[h].req))
    /\ [][ /\ \A h \in RelayHandlers :
                (rQ[h].pc = "idle" /\ rQ'[h].pc = "store") =>
                    LET msg == rQ'[h].req.message
                    IN  /\ msg.slot > now
                        /\ rDeleg[msg.slot] # None
                        /\ rDeleg[msg.slot].message.delegate = msg.delegate
           /\ \A s \in Slots :
                rCons'[s] # rCons[s] =>
                    \E h \in RelayHandlers :
                        /\ rQ[h].pc = "store"
                        /\ rQ[h].req.message.slot = s
                        /\ rCons'[s] = rQ[h].req
                        /\ rQ'[h].pc = "done" /\ rQ'[h].status = "ok"
           /\ \A h \in RelayHandlers :
                ( /\ rQ[h].pc # "done" /\ rQ'[h].pc = "done"
                  /\ rQ'[h].kind = "post_constraints"
                  /\ rQ'[h].status # "ok" ) => rCons' = rCons ]_vars

\* Constraints of a delegate are stored while a request naming another
\* delegate for a delegated slot has been refused.
C14_Witness ==
    /\ \E s \in Slots : rCons[s] # None
    /\ \E h \in RelayHandlers :
         /\ rQ[h].pc = "done" /\ rQ[h].kind = "post_constraints"
         /\ rQ[h].status = "err_gateway"
         /\ rDeleg[rQ[h].req.message.slot] # None

\* C15: the signed constraints of a slot are kept under the slot alone, and
\* an accepted POST for a slot replaces whatever was stored for it; writing
\* the stored value again leaves the store as it was.
C15_ConstraintsOverwrite ==
    [][\A h \in RelayHandlers :
         ( /\ rQ[h].pc = "store" /\ rQ'[h].pc = "done" /\ rQ'[h].status = "ok" ) =>
            LET sc == rQ[h].req
            IN  /\ rQ'[h].prev = rCons[sc.message.slot]
                /\ rCons'[sc.message.slot] = sc
                /\ \A s \in Slots \ {sc.message.slot} : rCons'[s] = rCons[s]
                /\ (rCons[sc.message.slot] = sc => rCons' = rCons)]_vars

\* An accepted POST has replaced other constraints of its slot.
C15_Witness ==
    \E h \in RelayHandlers :
        /\ rQ[h].pc = "done" /\ rQ[h].status = "ok"
        /\ rQ[h].kind = "post_constraints"
        /\ rQ[h].prev # None
        /\ rQ[h].prev # rQ[h].req
        /\ rCons[rQ[h].req.message.slot] = rQ[h].req

\* A finished GET /constraints.
IsGet(q) == q.pc = "done" /\ q.kind = "get_constraints"

\* C17: a GET /constraints/{s} with no receiver headers is answered with
\* HTTP 400 when s >= current_slot and the constraints stored for s name
\* receivers, and with HTTP 200 and the stored constraints when
\* current_slot > s (a failed read of the store aside).
C17_Original ==
    \A h \in RelayHandlers :
        ( /\ IsGet(rQ[h])
          /\ rQ[h].req.headers = NoHeaders
          /\ rQ[h].prev # None ) =>
            /\ (~rQ[h].passed /\ rQ[h].prev.message.receivers # {}) =>
                    HttpStatus(rQ[h]) = 400
            /\ (rQ[h].passed /\ rQ[h].status # "err_store") =>
                    /\ HttpStatus(rQ[h]) = 200
                    /\ rQ[h].body = <<rQ[h].prev>>

\* C18: while the slot has not passed, constraints stored with an empty
\* receivers list are returned to any caller, whatever headers it sends (a
\* failed read of the store aside).
C18_Original ==
    \A h \in RelayHandlers :
        ( /\ IsGet(rQ[h])
          /\ ~rQ[h].passed
          /\ rQ[h].prev # None
          /\ rQ[h].prev.message.receivers = {}
          /\ rQ[h].req.headers # MalformedHeaders
          /\ rQ[h].status # "err_store" ) =>
            /\ rQ[h].status = "ok"
            /\ rQ[h].body = <<rQ[h].prev>>

\* C19: while the slot has not passed, constraints stored with a non-empty
\* receivers list are returned only to a caller whose signature over the
\* hash of the slot verifies under the key it presents and whose key is in
\* the receivers list; every other caller gets an error and no constraints.
C19_ReceiverAuthentication ==
    \A h \in RelayHandlers :
        ( /\ IsGet(rQ[h])
          /\ ~rQ[h].passed
          /\ rQ[h].prev # None
          /\ rQ[h].prev.message.receivers # {} ) =>
            LET hdrs == rQ[h].req.headers
                authentic ==
                    /\ hdrs \notin {NoHeaders, MalformedHeaders}
                    /\ hdrs.signature.signer = hdrs.public_key
                    /\ hdrs.signature.msg = SlotHash(rQ[h].req.slot)
                    /\ hdrs.public_key \in rQ[h].prev.message.receivers
            IN  IF rQ[h].status = "ok"
                THEN authentic /\ rQ[h].body = <<rQ[h].prev>>
                ELSE /\ rQ[h].body = None
                     /\ HttpStatus(rQ[h]) # 200
                     /\ (~authentic \/ rQ[h].status = "err_store")

\* Before the slot, a caller that signed the hash of the slot with its own
\* key but is not in the receivers list of the stored constraints has been
\* refused.
C19_Witness ==
    /\ now = 0
    /\ rCons[1] # None
    /\ rCons[1].message.receivers # {}
    /\ \E h \in RelayHandlers :
         /\ IsGet(rQ[h]) /\ ~rQ[h].passed /\ rQ[h].prev = rCons[1]
         /\ rQ[h].req.slot = 1
         /\ rQ[h].status = "err_receiver"
         /\ rQ[h].req.headers.signature.signer = rQ[h].req.headers.public_key

\* C20: a block is forwarded to the downstream relay only after signed
\* constraints were found for its slot and its proofs passed every check
\* against them and against the block; a request that fails before that
\* sends nothing downstream; what is sent is the block without the proofs.
C20_ForwardOnlyValidatedBlocks ==
    /\ [](\A h \in RelayHandlers :
            rQ[h].pc = "forward" =>
                LET req == rQ[h].req
                    cs  == rQ[h].prev.message.constraints
                IN  /\ rQ[h].prev # None
                    /\ rQ[h].prev.message.slot = req.message.slot
                    /\ Len(req.proofs.payloads) = Len(cs)
                    /\ Len(req.proofs.constraint_types) = Len(cs)
                    /\ \A i \in 1 .. Len(cs) :
                         LET proof == FromBytes(req.proofs.payloads[i])
                         IN  /\ req.proofs.constraint_types[i] = cs[i].constraint_type
                             /\ proof.tx_hash = cs[i].payload.signed_tx
                             /\ proof.tx_index \in 1 .. Len(req.message.txs)
                             /\ req.message.txs[proof.tx_index] = proof.tx_hash)
    /\ [][ /\ \A h \in RelayHandlers :
                (rQ[h].pc = "idle" /\ rQ'[h].pc = "forward") =>
                    rQ'[h].prev = rCons[rQ'[h].req.message.slot]
           /\ rDown' # rDown =>
                \E h \in RelayHandlers :
                    /\ rQ[h].pc = "forward"
                    /\ rDown' = [slot |-> rQ[h].req.message.slot,
                                 txs  |-> rQ[h].req.message.txs]
           /\ \A h \in RelayHandlers :
                (rQ[h].pc = "idle" /\ rQ'[h].pc = "done") => rDown' = rDown ]_vars

\* A block has been forwarded for a slot with two stored constraints, and
\* a request whose proofs do not match the stored constraints has been
\* refused with nothing sent for it.
C20_Witness ==
    /\ rDown # None
    /\ rCons[rDown.slot] # None
    /\ Len(rCons[rDown.slot].message.constraints) = 2
    /\ \E h \in RelayHandlers :
         /\ rQ[h].pc = "done" /\ rQ[h].kind = "post_blocks"
         /\ rQ[h].status = "err_proofs"
         /\ rQ[h].req.message # rDown

C21_ProofValidationConditions ==
    (call # None /\ call.fn = "handle_proof_validation" /\ call.result) =>
        LET proofs      == call.args[1].proofs
            constraints == call.args[2].message.constraints
        IN  /\ Len(proofs.constraint_types) = Len(proofs.payloads)
            /\ Len(proofs.constraint_types) <= MAX_CONSTRAINTS_PER_SLOT
            /\ Len(proofs.constraint_types) = Len(constraints)
            /\ \A i \in 1 .. Len(constraints) :
                 /\ proofs.constraint_types[i] = constraints[i].constraint_type
                 /\ constraints[i].constraint_type = INCLUSION_CONSTRAINT_TYPE
                 /\ FromBytes(proofs.payloads[i]) # DecodeError
                 /\ FromBytes(proofs.payloads[i]).tx_hash
                        = TxHash(constraints[i].payload.signed_tx)

\* A request with two proofs has been accepted against two stored
\* constraints.
C21_Witness ==
    /\ call # None
    /\ call.fn = "handle_proof_validation"
    /\ call.result
    /\ Len(call.args[2].message.constraints) = 2

C24_AfterAll(db, ops, k) ==
    LET on == {i \in 1 .. Len(ops) : ops[i].key = k}
        last == CHOOSE i \in on : \A j \in on : j <= i
    IN  IF on = {} THEN db[k]
        ELSE IF ops[last].op = "Put" THEN ops[last].value ELSE NoValue

C25_InMessage(req) ==
    /\ sMsg # None
    /\ sMsg.message.slot = req.payload.slot
    /\ \E i \in 1 .. Len(sMsg.message.constraints) :
         sMsg.message.constraints[i] = CreateConstraintFromCommitmentRequest(req)

\* C25: a commitmentRequest for slot s that comes in after the finalization
\* flag of s is set is refused only for what any request is refused for
\* (validation, the read of the delegation, no delegation), and when it
\* returns a commitment the commitment and its constraint are in the store;
\* its constraint is in no constraints message the scheduler makes for s,
\* and the scheduler signs and posts nothing for s any more.
C25_LateAfterFlag ==
    /\ [](\A l \in gLate : l.after = "flag" =>
            /\ SignedConstraintsFinalized(gFlag, l.req.payload.slot)
            /\ ~C25_InMessage(l.req))
    /\ [](\A h \in GatewayHandlers :
            ( /\ gH[h].pc = "done"
              /\ gH[h].status = "ok"
              /\ [req |-> gH[h].req, after |-> "flag"] \in gLate ) =>
               /\ gH[h].signed # None
               /\ GetSignedCommitmentAndConstraint(
                      gStore, gH[h].req.payload.slot, RequestHash(gH[h].req))
                  = [commitment |-> gH[h].signed,
                     constraint |-> CreateConstraintFromCommitmentRequest(gH[h].req)])
    /\ [][\A h \in GatewayHandlers :
            ( /\ gH[h].pc = "idle"
              /\ gH'[h].pc = "done"
              /\ SignedConstraintsFinalized(gFlag, gH'[h].req.payload.slot) ) =>
               \/ /\ gH'[h].status = "err_validation"
                  /\ ~ValidateCommitmentRequest(gH'[h].req, now)
               \/ gH'[h].status = "err_delegation_read"
               \/ /\ gH'[h].status = "err_no_delegation"
                  /\ GetDelegation(gDeleg, gH'[h].req.payload.slot) = None]_vars
    /\ [][SchedEmits =>
            \A l \in gLate : l.after = "flag" => sOut'.slot # l.req.payload.slot]_vars

\* A request that came in after the flag of its slot was set has returned
\* its commitment, and the store holds its constraint beside the one that
\* was released.
C25_Witness ==
    \E h \in GatewayHandlers :
        /\ gH[h].pc = "done"
        /\ gH[h].status = "ok"
        /\ [req |-> gH[h].req, after |-> "flag"] \in gLate
        /\ gAcked[gH[h].req.payload.slot]
        /\ Len(GetConstraintsInRange(gStore, gH[h].req.payload.slot)) = 2

\* C25 as stated: the constraint of a request that comes in after the flag
\* of its slot is set, or after the scheduler's scan for the slot, is in no
\* constraints message the relay has acknowledged to the scheduler.
C25_Original ==
    \A l \in gLate :
        ~(sPc = "finalize" /\ sOut.kind = "post" /\ sOut.ok /\ C25_InMessage(l.req))

\* C29: a commitmentRequest that ends on a failure of the store, when the
\* delegation is read or when the commitment and constraint are written,
\* gives its caller the internal error code and never the invalid-params
\* code.
C29_Original ==
    \A h \in GatewayHandlers :
        (gH[h].pc = "done" /\ gH[h].status \in {"err_delegation_read", "err_store"}) =>
            /\ ErrorCode(gH[h].status) = -32603
            /\ ErrorCode(gH[h].status) # -32602

\* C26: however commitmentRequests for one slot with different request
\* hashes interleave, each that succeeds is stored under its own
\* (slot, request_hash) key: a write changes the row of its key only and
\* removes none, every call that returned a commitment finds its own pair
\* under its key, and a range scan of the slot gives one constraint for
\* each stored request, that request's constraint.
C26_DistinctRequestsAllPersisted ==
    /\ [][\A h \in GatewayHandlers :
            (gH[h].pc = "store" /\ gH'[h].pc = "done") =>
               \A r \in gStore :
                  r.key # CommitmentKey(gH[h].req.payload.slot, RequestHash(gH[h].req))
                     => r \in gStore']_vars
    /\ [][\A r \in gStore : \E q \in gStore' : q.key = r.key]_vars
    /\ [](\A h \in GatewayHandlers :
            (gH[h].pc = "done" /\ gH[h].status = "ok") =>
               [key   |-> CommitmentKey(gH[h].req.payload.slot, RequestHash(gH[h].req)),
                value |-> [commitment |-> gH[h].signed,
                           constraint |->
                               CreateConstraintFromCommitmentRequest(gH[h].req)]]
                  \in gStore)
    /\ [](\A s \in Slots :
            LET rows == {r \in gStore : r.key.slot = s}
                scan == GetConstraintsInRange(gStore, s)
            IN  /\ Len(scan) = Cardinality(rows)
                /\ \A r \in rows : \E i \in 1 .. Len(scan) : scan[i] = r.value.constraint)

\* Two calls for one slot with different request hashes were in progress
\* together and both have returned: the store holds both pairs and the scan
\* of the slot gives two constraints.
C26_Witness ==
    /\ \A h \in GatewayHandlers : gH[h].pc = "done" /\ gH[h].status = "ok"
    /\ \E h1, h2 \in GatewayHandlers :
         /\ gH[h1].req.payload.slot = gH[h2].req.payload.slot
         /\ RequestHash(gH[h1].req) # RequestHash(gH[h2].req)
         /\ Cardinality({r \in gStore : r.key.slot = gH[h1].req.payload.slot}) = 2
         /\ Len(GetConstraintsInRange(gStore, gH[h1].req.payload.slot)) = 2

\* C27: signed commitments are written once for each request hash: no
\* step, a repeated commitmentRequest with the same request included,
\* changes the SignedCommitment stored under a (slot, request_hash) key.
C27_Original ==
    [][\A r \in gStore : \A q \in gStore' :
          q.key = r.key => q.value.commitment = r.value.commitment]_vars

\* C28: a dependency error inside an iteration of a background loop is
\* logged and does not end the loop: no loop is ever ended, and after an
\* iteration that failed the loop runs another iteration.
C28_LoopsSurviveErrors ==
    /\ [](\A l \in Loops :
            /\ bg[l].pc # "ended"
            /\ (bg[l].last \in Dependencies(l)) => bg[l].logged)
    /\ \A l \in Loops :
         (bg[l].pc = "waiting" /\ bg[l].last \in Dependencies(l))
            ~> (bg[l].pc = "running")

\* Every loop has been through an iteration that failed and is running the
\* one after it.
C28_Witness ==
    \A l \in Loops :
        bg[l].pc = "running" /\ bg[l].last \in Dependencies(l) /\ bg[l].logged

\* C30, as far as one iteration goes: when the gateway holds a delegation
\* for the scheduler's target slot s and a constraint is stored for s, the
\* scheduler is on its way to post signed constraints for s and to set the
\* flag; it is never asleep with the flag of s unset until after s has
\* begun, from where, whatever the signer and the relay answer, nothing is
\* posted for s.
C30_Original ==
    ~( /\ sPc = "sleep"
       /\ now + 1 \in Slots
       /\ sTarget.message.slot = now + 1
       /\ GetDelegation(gDeleg, now + 1) # None
       /\ GetConstraintsInRange(gStore, now + 1) # <<>>
       /\ ~SignedConstraintsFinalized(gFlag, now + 1) )

\* C31: a release that finds no stored constraint for its target slot does
\* nothing: no steps of the scheduler from there ask for a signature, send a
\* POST or set a flag, and the scheduler is idle afterwards; the slot's flag
\* is unset and its delegation still stored, so that the next iteration
\* decides to release the slot again.
C31_EmptyReleaseIsNoOp ==
    /\ [][(sPc = "release"
           /\ GetConstraintsInRange(gStore, sTarget.message.slot) = <<>>)
          => /\ sOut'.kind \notin {"sign", "post"}
             /\ sPc' \in {"release", "idle"}
             /\ gFlag' = gFlag
             /\ gAcked' = gAcked]_vars
    /\ [](sOut.kind = "empty"
          => /\ sPc = "idle"
             /\ sMsg = None
             /\ ~SignedConstraintsFinalized(gFlag, sOut.slot)
             /\ ReleaseDecision(GetDelegation(gDeleg, sOut.slot), "false"))

\* A release found nothing for the slot, and a constraint for the slot was
\* stored afterwards while the slot is still the target.
C31_Witness ==
    /\ sOut.kind = "empty"
    /\ sOut.slot = now + 1
    /\ GetConstraintsInRange(gStore, sOut.slot) # <<>>

\* C32: the message post_constraints builds for slot s holds exactly the
\* constraints of the rows stored under s, one for each row and none of a
\* row of another slot, names slot s, the proposer and the delegate of the
\* delegation it was handed, and the configured receivers; it builds none
\* when no row is stored under s.
C32_ReleasedMessageContent ==
    (call # None /\ call.fn = "post_constraints") =>
        LET store == call.args[1]
            s     == call.args[2]
            rows  == {r \in store : r.key.slot = s}
            m     == call.result
        IN  IF rows = {}
            THEN m = None
            ELSE /\ m # None
                 /\ m.slot = s
                 /\ Len(m.constraints) = Cardinality(rows)
                 /\ {m.constraints[i] : i \in 1 .. Len(m.constraints)}
                        = {r.value.constraint : r \in rows}
                 /\ \A i \in 1 .. Len(m.constraints) :
                        m.constraints[i].payload.slot = s
                 /\ m.proposer = call.args[3].message.proposer
                 /\ m.delegate = call.args[3].message.delegate
                 /\ m.receivers = ConstraintsReceivers

\* A message built from a store that holds two rows of the slot and a row
\* of another slot.
C32_Witness ==
    /\ call # None
    /\ call.fn = "post_constraints"
    /\ call.result # None
    /\ Len(call.result.constraints) = 2
    /\ \E r \in call.args[1] : r.key.slot # call.args[2]

\* C33: the proposer asks for a signature only for a slot later than the
\* current one, the delegation in its hand and every delegation in its
\* store names one of the signer's keys as proposer and signer, the
\* configured gateway key as delegate, the configured gateway address as
\* committer and empty metadata, and the store changes only by the write of
\* the delegation in hand; a slot that is never later than the current slot
\* is never delegated.
C33_OnlyOwnFutureDuties ==
    /\ [](\A s \in Slots :
            \A sd \in ({pDb[s]} \cup {pCur}) \ {None} :
                /\ sd.message.proposer \in OurKeys
                /\ sd.signer = sd.message.proposer
                /\ sd.message.delegate = GatewayPublicKey
                /\ sd.message.committer = GatewayAddress
                /\ sd.message.metadata = EmptyBytes
                /\ sd.message.slot > 0
                /\ (pDb[s] = sd => sd.message.slot = s))
    /\ [][\A s \in Slots :
            /\ pSignReq'[s] # pSignReq[s] => s > now
            /\ pDb'[s] # pDb[s] =>
                  (pCur # None /\ pCur.message.slot = s /\ pDb'[s] = pCur)]_vars

\* The delegation of a future duty of ours is stored, the clock has reached
\* its slot, and no other slot is delegated.
C33_Witness ==
    /\ pDb[1] # None
    /\ pDb[0] = None
    /\ now = 1
    /\ pPc = "idle"

\* C34: a scan of a kind over [lo, hi] returns the stored rows of that kind
\* whose slot is in the range, each once and in ascending slot order, and
\* no row of another kind; it returns nothing when lo > hi or the store is
\* empty; and the iterator ends at the first key, from the start key on,
\* that is of another kind or of a slot after hi.
C34_ScanExact ==
    (call # None /\ call.fn = "scan_slot_range_kind") =>
        LET db       == call.args[1]
            kind     == call.args[2]
            lo       == call.args[3]
            hi       == call.args[4]
            out      == call.result.out
            wanted   == {k \in db : k[1] = kind /\ lo <= k[2] /\ k[2] <= hi}
            started  == {k \in db : k[1] > kind \/ (k[1] = kind /\ k[2] >= lo)}
            stoppers == {k \in started : k[1] # kind \/ k[2] > hi}
            before   == {k \in started : \A t \in stoppers : KeyLess(k, t)}
        IN  /\ Len(out) = Cardinality(wanted)
            /\ {out[i] : i \in 1 .. Len(out)}
                   = {<<k[2], ValueAt(k)>> : k \in wanted}
            /\ \A i \in 1 .. Len(out) - 1 : out[i][1] <= out[i + 1][1]
            /\ (lo > hi \/ db = {}) => out = <<>>
            /\ call.result.seen
                   = IF lo > hi THEN 0
                     ELSE Cardinality(before) + (IF stoppers = {} THEN 0 ELSE 1)

\* A scan that returns rows of two slots from a store that holds rows of
\* another kind in the same slots.
C34_Witness ==
    /\ call # None
    /\ call.fn = "scan_slot_range_kind"
    /\ Len(call.result.out) >= 2
    /\ call.result.out[1][1] < call.result.out[Len(call.result.out)][1]
    /\ \E k \in call.args[1] :
          /\ k[1] # call.args[2]
          /\ call.args[3] <= k[2]
          /\ k[2] <= call.args[4]

\* C35: no slot has more than one POST /delegation; once the POST for a slot
\* has failed, the record stored for the slot stays as it is, and no later
\* step asks for a signature for the slot or sends its delegation again.
C35_AtMostOnePostPerSlot ==
    /\ [](\A s \in Slots : pPosts[s] <= 1)
    /\ [](\A s \in Slots : pPostErr[s] => pDb[s] # None /\ pPosts[s] = 1)
    /\ [][\A s \in Slots :
            pPostErr[s] => /\ pDb'[s] = pDb[s]
                           /\ pSignReq'[s] = pSignReq[s]
                           /\ pPosts'[s] = pPosts[s]]_vars

\* The POST for a slot failed, and a later pass met a duty for the slot and
\* skipped it.
C35_Witness ==
    \E s \in Slots :
        /\ pPostErr[s]
        /\ pSkipped[s]
        /\ pPosts[s] = 1
        /\ pSignReq[s] = 1

\* C36 (as claimed): in every state of the relay, every slot that has
\* stored signed constraints has a stored delegation whose delegate is the
\* delegate of the stored constraints message.
C36_Original ==
    \A s \in Slots :
        GetSignedConstraints(rCons, s) # None =>
            /\ GetDelegation(rDeleg, s) # None
            /\ GetDelegation(rDeleg, s).message.delegate
                   = GetSignedConstraints(rCons, s).message.delegate

\* C37 (as claimed): once the chain has begun, the time to the trigger of
\* the slot after the current one is never positive, and the scheduler
\* takes the branch that releases at once, never the one that sleeps first.
C37_Original ==
    (/\ call # None
     /\ call.fn = "time_to_trigger"
     /\ call.args[2] >= call.args[1] * 1000)
        => /\ call.result.diff <= 0
           /\ call.result.branch = "release"

C39_PollerStoresOnlyOwnDelegations ==
    /\ [](\A s \in Slots :
            gDeleg[s] # None => /\ gDeleg[s].message.delegate = GatewayPublicKey
                                /\ gDeleg[s].message.slot = s)
    /\ [][\A s \in Slots : gDeleg[s] # None => gDeleg'[s] = gDeleg[s]]_vars
    /\ [][(gPoll' # gPoll /\ gPoll.pc = "window" /\ gPoll'.next = gPoll.next + 1) =>
            /\ gPoll'.last.slot = gPoll.next
            /\ (gPoll'.last.outcome = "skipped") = (gDeleg[gPoll.next] # None)
            /\ gPoll'.last.outcome # "stored" => gDeleg' = gDeleg
            /\ gPoll'.last.outcome = "stored" =>
                  \A s \in Slots \ {gPoll.next} : gDeleg'[s] = gDeleg[s]
            /\ gPoll'.pc = IF gPoll.next + 1 \in Slots THEN "window" ELSE "idle"]_vars

\* In one pass the fetch for the first slot of the window stored nothing
\* (it failed, found nothing or found another delegate), and the delegation
\* of the next slot was fetched and stored.
C39_Witness ==
    /\ gPoll.last = [slot |-> 1, outcome |-> "stored"]
    /\ gPoll.known = {}
    /\ gDeleg[0] = None
    /\ gDeleg[1] # None

\* C40: when the signed constraints the relay holds for a slot have more
\* than MAX_CONSTRAINTS_PER_SLOT constraints, every POST blocks_with_proofs
\* for the slot ends in an error, and a block is passed to the downstream
\* relay only for a slot whose stored constraints are no more than the
\* maximum.
C40_OverMaximumNeverForwarded ==
    /\ [][\A h \in RelayHandlers :
            (/\ rQ[h].pc = "idle"
             /\ rQ'[h].pc # "idle"
             /\ rQ'[h].kind = "post_blocks"
             /\ rCons[BlockSlot(rQ'[h].req)] # None
             /\ Len(rCons[BlockSlot(rQ'[h].req)].message.constraints) >
                    MAX_CONSTRAINTS_PER_SLOT)
            => /\ rQ'[h].pc = "done"
               /\ rQ'[h].status \in {"err_store", "err_proofs"}]_vars
    /\ [][\A h \in RelayHandlers :
            (rQ[h].pc = "forward" /\ rQ'[h].pc # "forward")
            => /\ rCons[BlockSlot(rQ[h].req)] # None
               /\ Len(rCons[BlockSlot(rQ[h].req)].message.constraints) <=
                      MAX_CONSTRAINTS_PER_SLOT]_vars
    /\ [][rDown' # rDown
            => /\ rCons[rDown'.slot] # None
               /\ Len(rCons[rDown'.slot].message.constraints) <=
                      MAX_CONSTRAINTS_PER_SLOT]_vars

\* The relay holds one constraint more than the maximum for slot 1, and a
\* block for slot 1 with as many proofs as constraints was refused.
C40_Witness ==
    /\ rCons[1] # None
    /\ Len(rCons[1].message.constraints) = MAX_CONSTRAINTS_PER_SLOT + 1
    /\ rQ[1].pc = "done"
    /\ rQ[1].kind = "post_blocks"
    /\ rQ[1].status = "err_proofs"
    /\ BlockSlot(rQ[1].req) = 1
    /\ Len(rQ[1].req.proofs.constraint_types) = MAX_CONSTRAINTS_PER_SLOT + 1
    /\ Len(rQ[1].req.proofs.payloads) = MAX_CONSTRAINTS_PER_SLOT + 1

====
